---- MODULE Spec2Model ----
(***************************************************************************)
(* Model of the generic data-access layer (core/dao/basedao.py) and of the *)
(* transactional service layer (core/service/service.py).                  *)
(*                                                                         *)
(*  - SpecDao : threads call the session API of BaseDao in any order.      *)
(*  - SpecTx  : threads call service methods; BaseService.__getattribute__ *)
(*              wraps the call in __start_transaction when the thread has  *)
(*              no session.                                                *)
(*  - SpecAlias : BaseDao.__resolve_field_aliases builds the alias table    *)
(*              of a query from the caller's join clauses.                 *)
(*  - SpecFilter: BaseDao.__resolve_filter_clauses compiles a list of      *)
(*              filter clauses and a reordering of it into WHERE trees.    *)
(*  - SpecWildcard: one filter clause compiled repeatedly.                *)
(*  - SpecMaterialize: select_fields labels its columns and rebuilds the   *)
(*              nested map of a result row.                                *)
(*  - SpecSelect: one generic select, from clause construction to the      *)
(*              execution of the statement or the error.                   *)
(*  - SpecJson : JsonQuery builds the filters of a wire query.             *)
(*  - SpecCommit: BaseDao.commit step by step, thread beside thread.       *)
(*  - SpecFactory: ServiceFactory.get_service called by several threads.   *)
(*  - SpecPk   : find_entity_id_field_name over the columns of an entity.  *)
(*  - SpecGroup: the WHERE tree of a filter list evaluated on rows.         *)
(*  - SpecAttr : a service method read from the service and called later.  *)
(*  - SpecBarrier: an exception leaving a nest of catch_exceptions.         *)
(*  - SpecSync : the many-to-many synchronization of RolServiceImpl.update. *)
(*  - SpecPage : limit and offset of a generic select.                      *)
(***************************************************************************)
EXTENDS Integers, Sequences, FiniteSets, TLC

\* ------------------------------------------------------------------ bounds
MaxSessions == 2
MaxChains == 1
MaxDepth == 2

\* Two threads are what an interference between threads needs.
Threads == {1, 2}

\* The two service classes of a cross-service chain (RolServiceImpl.update calls
\* UsuarioRolServiceImpl.update_usuarios_roles_by_rol); each owns a DAO of another
\* entity type, all DAOs share BaseDao.__thread_session_dict.
Services == {"RolServiceImpl", "UsuarioRolServiceImpl"}

NoSession == 0

WriteOps == {"create", "update", "delete"}
ReadOps == {"select", "select_fields", "select_by_statement"}
DataOps == WriteOps \cup ReadOps

VARIABLES
    thread_session_dict,  \* BaseDao.__thread_session_dict: thread ident -> session (NoSession = no key)
    sessions,             \* every session made by __session_maker, in creation order
    database,             \* the committed writes
    lastCall,             \* SpecDao: the last DAO call, its thread, outcome and the table before it
    stack,                \* SpecTx: per thread, the frames of the service methods being executed
    phase,                \* SpecTx: per thread, "idle" | "body" | "raising"
    chain,                \* SpecTx: per thread, the bookkeeping of the current / last call chain
    chains,               \* SpecTx: number of call chains started so far
    join_clauses,         \* SpecAlias: the join clauses handed to __select, in the caller's order
    join_sorted_list,     \* SpecAlias: __resolve_field_aliases' sorted work list
    alias_dict,           \* SpecAlias: aliases_dict of __select, keyed by the clause's field_name
    alias_built,          \* SpecAlias: the keys in the order their entries were built
    alias_pc,             \* SpecAlias: "idle" | "sort" | "loop" | "done" | "error"
    filter_clauses,       \* SpecFilter: the filter clauses handed to __select
    filter_perm,          \* SpecFilter: the same clauses with sibling clauses reordered
    where_orig,           \* SpecFilter: the compiled WHERE of filter_clauses
    where_perm,           \* SpecFilter: the compiled WHERE of filter_perm
    perm_in_run,          \* SpecFilter: every reordering so far stayed inside one run of equal operators
    filter_pc             \* SpecFilter: "idle" | "input" | "permuted" | "compiled"

daoVars == <<thread_session_dict, sessions, database>>
svcVars == <<stack, phase, chain, chains>>
aliasVars == <<join_clauses, join_sorted_list, alias_dict, alias_built, alias_pc>>
filterVars == <<filter_clauses, filter_perm, where_orig, where_perm, perm_in_run, filter_pc>>

\* >>> variables of the further specifications
\* Variables of the further specifications, one record each.
VARIABLES
    wildcard,  \* SpecWildcard: one filter clause, its value at construction and the patterns of its compilations
    materializer,  \* SpecMaterialize: the field clauses of a select_fields call, their labels, one result row and the nested map
    query,  \* SpecSelect: one generic select call, from the clauses the caller asks for to its outcome
    jsonquery,  \* SpecJson: a query in its wire form, the JsonQuery built from it and its compilation
    committer,  \* SpecCommit: one thread inside BaseDao.commit, its session and the database
    factory,  \* SpecFactory: the threads inside ServiceFactory.get_service and the services dictionary
    pklookup,  \* SpecPk: the columns of an entity type and the outcome of the primary-key lookup
    grouping,  \* SpecGroup: a list of filter clauses over TipoCliente and the WHERE trees compiled from it
    methodref,  \* SpecAttr: per thread, the callable read from a service, the frames entered through it and the session table
    barrier,  \* SpecBarrier: a nest of functions decorated with catch_exceptions and the exception travelling out of it
    sync,  \* SpecSync: the usuariosroles table, a role with its new list of usuario-rol elements and the outcome of the synchronization
    page  \* SpecPage: a generic select with limit and offset over a small table and the rows it returns
extraVars == <<wildcard, materializer, query, jsonquery, committer, factory, pklookup, grouping, methodref, barrier, sync, page>>
others_wildcard == <<daoVars, lastCall, svcVars, aliasVars, filterVars, materializer, query, jsonquery, committer, factory, pklookup, grouping, methodref, barrier, sync, page>>
others_materializer == <<daoVars, lastCall, svcVars, aliasVars, filterVars, wildcard, query, jsonquery, committer, factory, pklookup, grouping, methodref, barrier, sync, page>>
others_query == <<daoVars, lastCall, svcVars, aliasVars, filterVars, wildcard, materializer, jsonquery, committer, factory, pklookup, grouping, methodref, barrier, sync, page>>
others_jsonquery == <<daoVars, lastCall, svcVars, aliasVars, filterVars, wildcard, materializer, query, committer, factory, pklookup, grouping, methodref, barrier, sync, page>>
others_committer == <<daoVars, lastCall, svcVars, aliasVars, filterVars, wildcard, materializer, query, jsonquery, factory, pklookup, grouping, methodref, barrier, sync, page>>
others_factory == <<daoVars, lastCall, svcVars, aliasVars, filterVars, wildcard, materializer, query, jsonquery, committer, pklookup, grouping, methodref, barrier, sync, page>>
others_pklookup == <<daoVars, lastCall, svcVars, aliasVars, filterVars, wildcard, materializer, query, jsonquery, committer, factory, grouping, methodref, barrier, sync, page>>
others_grouping == <<daoVars, lastCall, svcVars, aliasVars, filterVars, wildcard, materializer, query, jsonquery, committer, factory, pklookup, methodref, barrier, sync, page>>
others_methodref == <<daoVars, lastCall, svcVars, aliasVars, filterVars, wildcard, materializer, query, jsonquery, committer, factory, pklookup, grouping, barrier, sync, page>>
others_barrier == <<daoVars, lastCall, svcVars, aliasVars, filterVars, wildcard, materializer, query, jsonquery, committer, factory, pklookup, grouping, methodref, sync, page>>
others_sync == <<daoVars, lastCall, svcVars, aliasVars, filterVars, wildcard, materializer, query, jsonquery, committer, factory, pklookup, grouping, methodref, barrier, page>>
others_page == <<daoVars, lastCall, svcVars, aliasVars, filterVars, wildcard, materializer, query, jsonquery, committer, factory, pklookup, grouping, methodref, barrier, sync>>
\* <<< variables of the further specifications
compVars == <<aliasVars, filterVars, extraVars>>
vars == <<thread_session_dict, sessions, database, lastCall, stack, phase, chain, chains,
          join_clauses, join_sorted_list, alias_dict, alias_built, alias_pc,
          filter_clauses, filter_perm, where_orig, where_perm, perm_in_run, filter_pc,
          extraVars>>

\* ------------------------------------------------------- BaseDao session API
\* The state the session API works on, passed explicitly so that one handler can
\* apply several calls in sequence.
World == [dict |-> thread_session_dict, ses |-> sessions, db |-> database]

SetWorld(w) ==
    /\ thread_session_dict' = w.dict
    /\ sessions' = w.ses
    /\ database' = w.db

\* threading.get_ident() of the calling thread
get_current_thread_mut(t) == 1
get_current_thread(t) == t

is_there_any_session_mut(w, t) == FALSE
is_there_any_session_in_current_thread(w, t) ==
    w.dict[get_current_thread(t)] # NoSession

\* cls.__thread_session_dict[ident] = cls.__session_maker(...): the entry is
\* overwritten whatever it held. fail: the session maker raises.
create_session(w, t, fail) ==
    IF fail
    THEN [w |-> w, err |-> "CreateError"]
    ELSE [w |-> [w EXCEPT !.ses = Append(@, [owner |-> t, open |-> TRUE, pending |-> {}]),
                          !.dict[get_current_thread(t)] = Len(w.ses) + 1],
          err |-> "none"]

get_session_mut(w, t) ==
    LET k == get_current_thread(t) IN
    IF w.dict[k] = NoSession
    THEN [err |-> "AttributeError", sid |-> NoSession]
    ELSE [err |-> "none", sid |-> w.dict[k]]
get_session_for_current_thread(w, t) ==
    LET k == get_current_thread(t) IN
    IF w.dict[k] = NoSession
    THEN [err |-> "NoActiveTransaction", sid |-> NoSession]
    ELSE [err |-> "none", sid |-> w.dict[k]]

\* flush(), expunge_all(), commit() on the thread's session. fail: the database
\* rejects the flush or the commit; nothing is committed then.
commit(w, t, fail) ==
    LET g == get_session_for_current_thread(w, t) IN
    IF g.err # "none" THEN [w |-> w, err |-> g.err]
    ELSE IF fail THEN [w |-> w, err |-> "CommitError"]
    ELSE [w |-> [w EXCEPT !.db = @ \cup w.ses[g.sid].pending,
                          !.ses[g.sid].pending = {}],
          err |-> "none"]

rollback(w, t, fail) ==
    LET g == get_session_for_current_thread(w, t) IN
    IF g.err # "none" THEN [w |-> w, err |-> g.err]
    ELSE IF fail THEN [w |-> w, err |-> "RollbackError"]
    ELSE [w |-> [w EXCEPT !.ses[g.sid].pending = {}], err |-> "none"]

\* session.close() discards what was not committed; then the entry is popped.
close_session_mut(w, t) ==
    LET g == get_session_for_current_thread(w, t) IN
    IF g.err # "none" THEN [w |-> w, err |-> g.err]
    ELSE [w |-> [w EXCEPT !.ses[g.sid].open = FALSE,
                          !.ses[g.sid].pending = {}],
          err |-> "none"]
close_session(w, t) ==
    LET g == get_session_for_current_thread(w, t) IN
    IF g.err # "none" THEN [w |-> w, err |-> g.err]
    ELSE [w |-> [w EXCEPT !.ses[g.sid].open = FALSE,
                          !.ses[g.sid].pending = {},
                          !.dict[get_current_thread(t)] = NoSession],
          err |-> "none"]

\* create / update / delete / select / select_fields / select_by_statement: the
\* session is looked up first, then the statement is executed and flushed into the
\* session's open transaction (autocommit=False). fail: the statement raises.
data_access_autocommit(w, t, op, wr, fail) ==
    LET g == get_session_for_current_thread(w, t) IN
    IF g.err # "none" THEN [w |-> w, err |-> g.err, sid |-> NoSession]
    ELSE IF fail THEN [w |-> w, err |-> "DataError", sid |-> g.sid]
    ELSE IF op \in WriteOps
         THEN [w |-> [w EXCEPT !.db = @ \cup {wr}], err |-> "none", sid |-> g.sid]
         ELSE [w |-> w, err |-> "none", sid |-> g.sid]
data_access(w, t, op, wr, fail) ==
    LET g == get_session_for_current_thread(w, t) IN
    IF g.err # "none" THEN [w |-> w, err |-> g.err, sid |-> NoSession]
    ELSE IF fail THEN [w |-> w, err |-> "DataError", sid |-> g.sid]
    ELSE IF op \in WriteOps
         THEN [w |-> [w EXCEPT !.ses[g.sid].pending = @ \cup {wr}],
               err |-> "none", sid |-> g.sid]
         ELSE [w |-> w, err |-> "none", sid |-> g.sid]

\* A write, tagged with the thread, the call chain and the nesting depth that made it.
Write(t, c, d) == [by |-> t, chain |-> c, at |-> d]

NoCall == [thread |-> 0, op |-> "none", err |-> "none", sid |-> NoSession,
           before |-> [u \in Threads |-> NoSession]]

\* ------------------------------------------------------------------ SpecDao
NoChain == [no |-> 0, sid |-> NoSession, nCreate |-> 0, nCommit |-> 0, nRollback |-> 0,
            nClose |-> 0, nestedOps |-> 0, usedSids |-> {}, wrote |-> {},
            firstErr |-> "none", err |-> "none", result |-> "none", committed |-> FALSE]

InitSessions ==
    /\ thread_session_dict = [t \in Threads |-> NoSession]
    /\ sessions = <<>>
    /\ database = {}
    /\ lastCall = NoCall
    /\ stack = [t \in Threads |-> <<>>]
    /\ phase = [t \in Threads |-> "idle"]
    /\ chain = [t \in Threads |-> NoChain]
    /\ chains = 0

\* No query is being compiled.
NoAliasWork ==
    /\ join_clauses = <<>>
    /\ join_sorted_list = <<>>
    /\ alias_dict = <<>>
    /\ alias_built = <<>>
    /\ alias_pc = "idle"

NoFilterWork ==
    /\ filter_clauses = <<>>
    /\ filter_perm = <<>>
    /\ where_orig = <<>>
    /\ where_perm = <<>>
    /\ perm_in_run = TRUE
    /\ filter_pc = "idle"

\* >>> idle states of the further specifications
NoExtraWork ==
    /\ wildcard = [pc |-> "idle"]
    /\ materializer = [pc |-> "idle"]
    /\ query = [pc |-> "idle"]
    /\ jsonquery = [pc |-> "idle"]
    /\ committer = [pc |-> "idle"]
    /\ factory = [pc |-> "idle"]
    /\ pklookup = [pc |-> "idle"]
    /\ grouping = [pc |-> "idle"]
    /\ methodref = [pc |-> "idle"]
    /\ barrier = [pc |-> "idle"]
    /\ sync = [pc |-> "idle"]
    /\ page = [pc |-> "idle"]
idle_but_wildcard ==
    /\ InitSessions /\ NoAliasWork /\ NoFilterWork
    /\ materializer = [pc |-> "idle"]
    /\ query = [pc |-> "idle"]
    /\ jsonquery = [pc |-> "idle"]
    /\ committer = [pc |-> "idle"]
    /\ factory = [pc |-> "idle"]
    /\ pklookup = [pc |-> "idle"]
    /\ grouping = [pc |-> "idle"]
    /\ methodref = [pc |-> "idle"]
    /\ barrier = [pc |-> "idle"]
    /\ sync = [pc |-> "idle"]
    /\ page = [pc |-> "idle"]
idle_but_materializer ==
    /\ InitSessions /\ NoAliasWork /\ NoFilterWork
    /\ wildcard = [pc |-> "idle"]
    /\ query = [pc |-> "idle"]
    /\ jsonquery = [pc |-> "idle"]
    /\ committer = [pc |-> "idle"]
    /\ factory = [pc |-> "idle"]
    /\ pklookup = [pc |-> "idle"]
    /\ grouping = [pc |-> "idle"]
    /\ methodref = [pc |-> "idle"]
    /\ barrier = [pc |-> "idle"]
    /\ sync = [pc |-> "idle"]
    /\ page = [pc |-> "idle"]
idle_but_query ==
    /\ InitSessions /\ NoAliasWork /\ NoFilterWork
    /\ wildcard = [pc |-> "idle"]
    /\ materializer = [pc |-> "idle"]
    /\ jsonquery = [pc |-> "idle"]
    /\ committer = [pc |-> "idle"]
    /\ factory = [pc |-> "idle"]
    /\ pklookup = [pc |-> "idle"]
    /\ grouping = [pc |-> "idle"]
    /\ methodref = [pc |-> "idle"]
    /\ barrier = [pc |-> "idle"]
    /\ sync = [pc |-> "idle"]
    /\ page = [pc |-> "idle"]
idle_but_jsonquery ==
    /\ InitSessions /\ NoAliasWork /\ NoFilterWork
    /\ wildcard = [pc |-> "idle"]
    /\ materializer = [pc |-> "idle"]
    /\ query = [pc |-> "idle"]
    /\ committer = [pc |-> "idle"]
    /\ factory = [pc |-> "idle"]
    /\ pklookup = [pc |-> "idle"]
    /\ grouping = [pc |-> "idle"]
    /\ methodref = [pc |-> "idle"]
    /\ barrier = [pc |-> "idle"]
    /\ sync = [pc |-> "idle"]
    /\ page = [pc |-> "idle"]
idle_but_committer ==
    /\ InitSessions /\ NoAliasWork /\ NoFilterWork
    /\ wildcard = [pc |-> "idle"]
    /\ materializer = [pc |-> "idle"]
    /\ query = [pc |-> "idle"]
    /\ jsonquery = [pc |-> "idle"]
    /\ factory = [pc |-> "idle"]
    /\ pklookup = [pc |-> "idle"]
    /\ grouping = [pc |-> "idle"]
    /\ methodref = [pc |-> "idle"]
    /\ barrier = [pc |-> "idle"]
    /\ sync = [pc |-> "idle"]
    /\ page = [pc |-> "idle"]
idle_but_factory ==
    /\ InitSessions /\ NoAliasWork /\ NoFilterWork
    /\ wildcard = [pc |-> "idle"]
    /\ materializer = [pc |-> "idle"]
    /\ query = [pc |-> "idle"]
    /\ jsonquery = [pc |-> "idle"]
    /\ committer = [pc |-> "idle"]
    /\ pklookup = [pc |-> "idle"]
    /\ grouping = [pc |-> "idle"]
    /\ methodref = [pc |-> "idle"]
    /\ barrier = [pc |-> "idle"]
    /\ sync = [pc |-> "idle"]
    /\ page = [pc |-> "idle"]
idle_but_pklookup ==
    /\ InitSessions /\ NoAliasWork /\ NoFilterWork
    /\ wildcard = [pc |-> "idle"]
    /\ materializer = [pc |-> "idle"]
    /\ query = [pc |-> "idle"]
    /\ jsonquery = [pc |-> "idle"]
    /\ committer = [pc |-> "idle"]
    /\ factory = [pc |-> "idle"]
    /\ grouping = [pc |-> "idle"]
    /\ methodref = [pc |-> "idle"]
    /\ barrier = [pc |-> "idle"]
    /\ sync = [pc |-> "idle"]
    /\ page = [pc |-> "idle"]
idle_but_grouping ==
    /\ InitSessions /\ NoAliasWork /\ NoFilterWork
    /\ wildcard = [pc |-> "idle"]
    /\ materializer = [pc |-> "idle"]
    /\ query = [pc |-> "idle"]
    /\ jsonquery = [pc |-> "idle"]
    /\ committer = [pc |-> "idle"]
    /\ factory = [pc |-> "idle"]
    /\ pklookup = [pc |-> "idle"]
    /\ methodref = [pc |-> "idle"]
    /\ barrier = [pc |-> "idle"]
    /\ sync = [pc |-> "idle"]
    /\ page = [pc |-> "idle"]
idle_but_methodref ==
    /\ InitSessions /\ NoAliasWork /\ NoFilterWork
    /\ wildcard = [pc |-> "idle"]
    /\ materializer = [pc |-> "idle"]
    /\ query = [pc |-> "idle"]
    /\ jsonquery = [pc |-> "idle"]
    /\ committer = [pc |-> "idle"]
    /\ factory = [pc |-> "idle"]
    /\ pklookup = [pc |-> "idle"]
    /\ grouping = [pc |-> "idle"]
    /\ barrier = [pc |-> "idle"]
    /\ sync = [pc |-> "idle"]
    /\ page = [pc |-> "idle"]
idle_but_barrier ==
    /\ InitSessions /\ NoAliasWork /\ NoFilterWork
    /\ wildcard = [pc |-> "idle"]
    /\ materializer = [pc |-> "idle"]
    /\ query = [pc |-> "idle"]
    /\ jsonquery = [pc |-> "idle"]
    /\ committer = [pc |-> "idle"]
    /\ factory = [pc |-> "idle"]
    /\ pklookup = [pc |-> "idle"]
    /\ grouping = [pc |-> "idle"]
    /\ methodref = [pc |-> "idle"]
    /\ sync = [pc |-> "idle"]
    /\ page = [pc |-> "idle"]
idle_but_sync ==
    /\ InitSessions /\ NoAliasWork /\ NoFilterWork
    /\ wildcard = [pc |-> "idle"]
    /\ materializer = [pc |-> "idle"]
    /\ query = [pc |-> "idle"]
    /\ jsonquery = [pc |-> "idle"]
    /\ committer = [pc |-> "idle"]
    /\ factory = [pc |-> "idle"]
    /\ pklookup = [pc |-> "idle"]
    /\ grouping = [pc |-> "idle"]
    /\ methodref = [pc |-> "idle"]
    /\ barrier = [pc |-> "idle"]
    /\ page = [pc |-> "idle"]
idle_but_page ==
    /\ InitSessions /\ NoAliasWork /\ NoFilterWork
    /\ wildcard = [pc |-> "idle"]
    /\ materializer = [pc |-> "idle"]
    /\ query = [pc |-> "idle"]
    /\ jsonquery = [pc |-> "idle"]
    /\ committer = [pc |-> "idle"]
    /\ factory = [pc |-> "idle"]
    /\ pklookup = [pc |-> "idle"]
    /\ grouping = [pc |-> "idle"]
    /\ methodref = [pc |-> "idle"]
    /\ barrier = [pc |-> "idle"]
    /\ sync = [pc |-> "idle"]
\* <<< idle states of the further specifications

InitWorld == InitSessions /\ NoAliasWork /\ NoFilterWork /\ NoExtraWork

Called(t, op, r, sid) ==
    lastCall' = [thread |-> t, op |-> op, err |-> r.err, sid |-> sid,
                 before |-> thread_session_dict]

DaoCreateSession(t) ==
    /\ Len(sessions) < MaxSessions
    /\ \E fail \in BOOLEAN :
         LET r == create_session(World, t, fail) IN
         /\ SetWorld(r.w)
         /\ Called(t, "create_session", r, r.w.dict[t])
    /\ UNCHANGED <<svcVars, compVars>>

DaoGetSession(t) ==
    /\ LET g == get_session_for_current_thread(World, t) IN
       Called(t, "get_session_for_current_thread", g, g.sid)
    /\ UNCHANGED daoVars
    /\ UNCHANGED <<svcVars, compVars>>

DaoCommit(t) ==
    /\ \E fail \in BOOLEAN :
         LET r == commit(World, t, fail) IN
         /\ SetWorld(r.w)
         /\ Called(t, "commit", r, get_session_for_current_thread(World, t).sid)
    /\ UNCHANGED <<svcVars, compVars>>

DaoRollback(t) ==
    /\ \E fail \in BOOLEAN :
         LET r == rollback(World, t, fail) IN
         /\ SetWorld(r.w)
         /\ Called(t, "rollback", r, get_session_for_current_thread(World, t).sid)
    /\ UNCHANGED <<svcVars, compVars>>

DaoCloseSession(t) ==
    /\ LET r == close_session(World, t) IN
       /\ SetWorld(r.w)
       /\ Called(t, "close_session", r, get_session_for_current_thread(World, t).sid)
    /\ UNCHANGED <<svcVars, compVars>>

DaoDataAccess(t) ==
    /\ \E op \in DataOps, fail \in BOOLEAN :
         LET r == data_access(World, t, op, Write(t, 0, 0), fail) IN
         /\ SetWorld(r.w)
         /\ Called(t, op, r, r.sid)
    /\ UNCHANGED <<svcVars, compVars>>

NextDao ==
    \E t \in Threads :
        \/ DaoCreateSession(t)
        \/ DaoGetSession(t)
        \/ DaoCommit(t)
        \/ DaoRollback(t)
        \/ DaoCloseSession(t)
        \/ DaoDataAccess(t)

SpecDao == InitWorld /\ [][NextDao]_vars

\* ------------------------------------------------ BaseService (service.py)
\* The except / finally part of __start_transaction once error e is in flight:
\* rollback(), "raise e", then close_session(); an error raised by rollback() or by
\* close_session() replaces the one in flight.
except_finally(w, t, e, failRb) ==
    LET rb == rollback(w, t, failRb)
        e1 == IF rb.err # "none" THEN rb.err ELSE e
        cl == close_session(rb.w, t)
        e2 == IF cl.err # "none" THEN cl.err ELSE e1
    IN [w |-> cl.w, err |-> e2]

\* The try body after the wrapped function returned: commit(), then the finally;
\* a failing commit goes through the except branch.
commit_finally(w, t, failCommit, failRb) ==
    LET c == commit(w, t, failCommit) IN
    IF c.err # "none"
    THEN [w |-> except_finally(c.w, t, c.err, failRb).w,
          err |-> except_finally(c.w, t, c.err, failRb).err,
          first |-> c.err, committed |-> FALSE, nRollback |-> 1]
    ELSE [w |-> close_session(c.w, t).w,
          err |-> close_session(c.w, t).err,
          first |-> close_session(c.w, t).err, committed |-> TRUE, nRollback |-> 0]

Depth(t) == Len(stack[t])
Top(t) == stack[t][Len(stack[t])]
Pop(s) == SubSeq(s, 1, Len(s) - 1)
FirstErr(c, e) == IF c.firstErr = "none" THEN e ELSE c.firstErr
NestedOps(t, n) == IF Depth(t) > 1 THEN n ELSE 0

\* The frame on top of t's stack has ended with error e (e = "none": it returned):
\* the caller's frame goes on, or the chain is over and e is its result.
Leave(t, c, e) ==
    /\ stack' = [stack EXCEPT ![t] = Pop(@)]
    /\ IF Depth(t) = 1
       THEN /\ phase' = [phase EXCEPT ![t] = "idle"]
            /\ chain' = [chain EXCEPT ![t] =
                           [c EXCEPT !.result = IF e = "none" THEN "ok" ELSE e,
                                     !.err = "none"]]
       ELSE /\ phase' = [phase EXCEPT ![t] = IF e = "none" THEN "body" ELSE "raising"]
            /\ chain' = [chain EXCEPT ![t] = [c EXCEPT !.err = e]]

\* service.method(...): __getattribute__ reads the attribute and, when the thread
\* has no session, hands out transaction_func, which is called at once and enters
\* __start_transaction (create_session, then the method body). Otherwise the
\* plain method is entered.
Invoke(t, s) ==
    /\ phase[t] \in {"idle", "body"}
    /\ phase[t] = "idle" <=> Depth(t) = 0
    /\ Depth(t) < MaxDepth
    /\ Depth(t) = 0 => chains < MaxChains
    /\ \E fail \in BOOLEAN, failRb \in BOOLEAN :
         LET outer == Depth(t) = 0
             c0 == IF outer THEN [NoChain EXCEPT !.no = chains + 1] ELSE chain[t]
             c1 == c0
             wrap == ~is_there_any_session_in_current_thread(World, t)
             r == create_session(World, t, fail)
             x == except_finally(r.w, t, r.err, failRb)
         IN
         IF ~wrap
         THEN /\ ~fail /\ ~failRb
              /\ stack' = [stack EXCEPT ![t] = Append(@, [svc |-> s, owner |-> FALSE])]
              /\ phase' = [phase EXCEPT ![t] = "body"]
              /\ chain' = [chain EXCEPT ![t] = c1]
              /\ UNCHANGED daoVars
         ELSE IF r.err = "none"
         THEN /\ ~failRb
              /\ stack' = [stack EXCEPT ![t] = Append(@, [svc |-> s, owner |-> TRUE])]
              /\ phase' = [phase EXCEPT ![t] = "body"]
              /\ chain' = [chain EXCEPT ![t] =
                             [c1 EXCEPT !.nCreate = @ + 1,
                                        !.sid = IF outer THEN r.w.dict[t] ELSE @,
                                        !.nestedOps = @ + (IF outer THEN 0 ELSE 1)]]
              /\ SetWorld(r.w)
         ELSE /\ SetWorld(x.w)
              /\ stack' = stack
              /\ phase' = [phase EXCEPT ![t] = IF outer THEN "idle" ELSE "raising"]
              /\ chain' = [chain EXCEPT ![t] =
                             [c1 EXCEPT !.nCreate = @ + 1, !.nRollback = @ + 1,
                                        !.nClose = @ + 1,
                                        !.nestedOps = @ + (IF outer THEN 0 ELSE 3),
                                        !.firstErr = FirstErr(c1, r.err),
                                        !.err = IF outer THEN @ ELSE x.err,
                                        !.result = IF outer THEN x.err ELSE @]]
    /\ chains' = IF Depth(t) = 0 THEN chains + 1 ELSE chains
    /\ lastCall' = lastCall
    /\ UNCHANGED compVars

\* self._dao.<op>(...) inside a method body.
BodyDataAccess(t) ==
    /\ phase[t] = "body"
    /\ \E op \in DataOps, fail \in BOOLEAN :
         LET r == data_access(World, t, op, Write(t, chain[t].no, Depth(t)), fail) IN
         /\ SetWorld(r.w)
         /\ chain' = [chain EXCEPT ![t] =
                        [@ EXCEPT !.usedSids = IF r.sid = NoSession THEN @ ELSE @ \cup {r.sid},
                                  !.wrote = IF r.err = "none" /\ op \in WriteOps
                                            THEN @ \cup {Depth(t)} ELSE @,
                                  !.firstErr = IF r.err = "none" THEN @ ELSE FirstErr(chain[t], r.err),
                                  !.err = r.err]]
         /\ phase' = [phase EXCEPT ![t] = IF r.err = "none" THEN "body" ELSE "raising"]
    /\ UNCHANGED <<stack, chains, lastCall, compVars>>

\* raise ValueError(...) / ServiceException(...) written in a method body.
BodyRaise(t) ==
    /\ phase[t] = "body"
    /\ phase' = [phase EXCEPT ![t] = "raising"]
    /\ chain' = [chain EXCEPT ![t] = [@ EXCEPT !.firstErr = FirstErr(chain[t], "BodyError"),
                                              !.err = "BodyError"]]
    /\ UNCHANGED <<stack, chains, lastCall, compVars>>
    /\ UNCHANGED daoVars

\* The method on top returns. A plain method just returns; under
\* __start_transaction the commit and the finally follow.
Return(t) ==
    /\ phase[t] = "body"
    /\ \E failCommit \in BOOLEAN, failRb \in BOOLEAN :
         IF ~Top(t).owner
         THEN /\ ~failCommit /\ ~failRb
              /\ Leave(t, chain[t], "none")
              /\ UNCHANGED daoVars
         ELSE LET r == commit_finally(World, t, failCommit, failRb)
                  c1 == [chain[t] EXCEPT
                            !.nCommit = @ + 1, !.nClose = @ + 1,
                            !.nRollback = @ + r.nRollback,
                            !.nestedOps = @ + NestedOps(t, 2 + r.nRollback),
                            !.committed = @ \/ r.committed,
                            !.firstErr = IF r.first = "none" THEN @ ELSE FirstErr(chain[t], r.first)]
              IN /\ failRb => failCommit
                 /\ SetWorld(r.w)
                 /\ Leave(t, c1, r.err)
    /\ UNCHANGED <<chains, lastCall, compVars>>

\* The error in flight leaves the method on top: a plain method lets it through,
\* __start_transaction runs its except and finally branches first.
Unwind(t) ==
    /\ phase[t] = "raising"
    /\ \E failRb \in BOOLEAN :
         IF ~Top(t).owner
         THEN /\ ~failRb
              /\ Leave(t, chain[t], chain[t].err)
              /\ UNCHANGED daoVars
         ELSE LET x == except_finally(World, t, chain[t].err, failRb)
                  c1 == [chain[t] EXCEPT !.nRollback = @ + 1, !.nClose = @ + 1,
                                         !.nestedOps = @ + NestedOps(t, 2)]
              IN /\ SetWorld(x.w)
                 /\ Leave(t, c1, x.err)
    /\ UNCHANGED <<chains, lastCall, compVars>>

NextTx ==
    \E t \in Threads :
        \/ \E s \in Services : Invoke(t, s)
        \/ BodyDataAccess(t)
        \/ BodyRaise(t)
        \/ Return(t)
        \/ Unwind(t)

SpecTx == InitWorld /\ [][NextTx]_vars

\* ---------------------------------------------------------------- SpecAlias
\* Strings the resolver takes apart are sequences of one-character strings.
\* Ord is the code point Python's str comparison orders them by.
Ord(c) == CASE c = "." -> 46 [] c = "_" -> 95 [] c = "a" -> 97 [] c = "b" -> 98
            [] c = "c" -> 99 [] c = "x" -> 120 [] c = "$" -> 36 [] c = "%" -> 37
            [] c = "d" -> 100

\* s1 < s2 for Python strings.
RECURSIVE StrLess(_, _)
StrLess(s1, s2) ==
    IF s2 = <<>> THEN FALSE
    ELSE IF s1 = <<>> THEN TRUE
    ELSE IF Head(s1) # Head(s2) THEN Ord(Head(s1)) < Ord(Head(s2))
    ELSE StrLess(Tail(s1), Tail(s2))

\* str.split(sep)
RECURSIVE split(_, _)
split(s, sep) ==
    IF \A i \in DOMAIN s : s[i] # sep THEN <<s>>
    ELSE LET i == CHOOSE j \in DOMAIN s : s[j] = sep /\ \A k \in 1..(j - 1) : s[k] # sep
         IN <<SubSeq(s, 1, i - 1)>> \o split(SubSeq(s, i + 1, Len(s)), sep)

\* sep.join(parts)
RECURSIVE join(_, _)
join(parts, sep) ==
    IF parts = <<>> THEN <<>>
    ELSE IF Len(parts) = 1 THEN parts[1]
    ELSE parts[1] \o <<sep>> \o join(Tail(parts), sep)

\* The mapped classes and their relationships: <<class, relationship, target>>.
\* "a" stands for Cliente.tipo_cliente, "b" for usuario_creacion (on Cliente
\* and on TipoCliente), "c" for Usuario.roles; "a_b" is a relationship of the
\* main entity whose name contains the character the alias name is joined by.
entity_type == "Cliente"
Relationships == {<<"Cliente", <<"a">>, "TipoCliente">>,
                  <<"Cliente", <<"b">>, "Usuario">>,
                  <<"Cliente", <<"a", "_", "b">>, "Usuario">>,
                  <<"TipoCliente", <<"b">>, "Usuario">>,
                  <<"Usuario", <<"c">>, "Rol">>}

\* The mapped columns: every class has the column "d".
Columns == {<<"Cliente", <<"d">>>>, <<"TipoCliente", <<"d">>>>,
            <<"Usuario", <<"d">>>>, <<"Rol", <<"d">>>>}

IsRelationship(cls, name) == \E r \in Relationships : r[1] = cls /\ r[2] = name
IsColumn(cls, name) == <<cls, name>> \in Columns
HasAttr(cls, name) == IsRelationship(cls, name) \/ IsColumn(cls, name)
RelClass(cls, name) == (CHOOSE r \in Relationships : r[1] = cls /\ r[2] = name)[3]

\* The field names a caller may put in a join clause.
JoinPaths == {<<"a">>, <<"b">>, <<"a", ".", "b">>, <<"a", "_", "b">>,
              <<"a", ".", "b", ".", "c">>, <<"x">>}
MaxJoins == 3

JoinClause(field_name) ==
    [field_name |-> field_name, join_type |-> "INNER_JOIN", is_join_with_fetch |-> FALSE]

\* key=lambda x: (len(x.join_split), x.join_clause.field_name)
SortKeyLess(x, y) ==
    LET lx == Len(split(x.field_name, ".")) ly == Len(split(y.field_name, ".")) IN
    \/ lx < ly
    \/ lx = ly /\ StrLess(x.field_name, y.field_name)

\* Mutant of sorted_joins: the work list keeps the caller's order.
sorted_joins_mut(lst) == lst

\* sorted(join_sorted_list, key=..., reverse=False): stable.
RECURSIVE sorted_joins(_)
sorted_joins(lst) ==
    IF lst = <<>> THEN <<>>
    ELSE LET n == Len(lst)
             x == lst[n]
             front == sorted_joins(SubSeq(lst, 1, n - 1))
             k == Cardinality({i \in DOMAIN front : ~SortKeyLess(x, front[i])})
         IN SubSeq(front, 1, k) \o <<x>> \o SubSeq(front, k + 1, n - 1)

AliasState(d, b, e) == [dict |-> d, built |-> b, err |-> e]

\* name="_".join(sorted_element.join_split)
alias_name(join_split) == join(join_split, "_")

\* Mutant of breadcrumb_through: the owner's own breadcrumb is left out.
breadcrumb_through_mut(owner) == <<<<owner.model_field_value, owner.model_alias>>>>
\* owner_breadcrumb.extend(owner's breadcrumb), then the owner's own
\* (model_field_value, model_alias) pair.
breadcrumb_through(owner) ==
    Append(owner.owner_breadcrumb, <<owner.model_field_value, owner.model_alias>>)

\* One pass of the loop over join_sorted_list.
resolve_one(jc, st) ==
    LET join_split == split(jc.field_name, ".")
        key == jc.field_name
        field_to_check == join_split[Len(join_split)]
        nested == Len(join_split) > 1
        key_for_breadcrumb == join(SubSeq(join_split, 1, Len(join_split) - 1), ".")
    IN
    IF nested /\ key_for_breadcrumb \notin DOMAIN st.dict
    THEN AliasState(st.dict, st.built, "KeyError")
    ELSE
    LET class_to_check == IF nested THEN st.dict[key_for_breadcrumb].model_type
                          ELSE entity_type
        owner_breadcrumb ==
            IF nested
            THEN breadcrumb_through(st.dict[key_for_breadcrumb])
            ELSE <<>>
    IN
    IF ~HasAttr(class_to_check, field_to_check)
    THEN AliasState(st.dict, st.built, "AttributeError")
    ELSE IF ~IsRelationship(class_to_check, field_to_check)
    THEN \* relationship_to_join_class stays None and aliased(None, ...) raises
         AliasState(st.dict, st.built, "NoInspectionAvailable")
    ELSE
    LET helper == [model_type |-> RelClass(class_to_check, field_to_check),
                   model_alias |-> [name |-> alias_name(join_split),
                                    id |-> Len(st.built) + 1],
                   model_owner_type |-> class_to_check,
                   owner_breadcrumb |-> owner_breadcrumb,
                   field_name |-> field_to_check,
                   model_field_value |-> <<class_to_check, field_to_check>>]
    IN AliasState([k \in DOMAIN st.dict \cup {key} |->
                       IF k = key THEN helper ELSE st.dict[k]],
                  Append(st.built, key), "none")

RECURSIVE resolve_from(_, _, _)
resolve_from(lst, i, st) ==
    IF st.err # "none" \/ i > Len(lst) THEN st
    ELSE resolve_from(lst, i + 1, resolve_one(lst[i], st))

InitAlias ==
    /\ InitSessions /\ NoFilterWork /\ NoExtraWork
    /\ \E n \in 1..MaxJoins : \E fs \in [1..n -> JoinPaths] :
         join_clauses = [i \in 1..n |-> JoinClause(fs[i])]
    /\ join_sorted_list = <<>>
    /\ alias_dict = <<>>
    /\ alias_built = <<>>
    /\ alias_pc = "input"

\* __resolve_field_aliases(join_clauses, aliases_dict)
ResolveFieldAliases ==
    /\ alias_pc = "input"
    /\ LET lst == sorted_joins(join_clauses)
           st == resolve_from(lst, 1, AliasState(<<>>, <<>>, "none"))
       IN /\ join_sorted_list' = lst
          /\ alias_dict' = st.dict
          /\ alias_built' = st.built
          /\ alias_pc' = IF st.err = "none" THEN "done" ELSE st.err
    /\ UNCHANGED <<join_clauses, filterVars, daoVars, lastCall, svcVars, extraVars>>

NextAlias == ResolveFieldAliases
SpecAlias == InitAlias /\ [][NextAlias]_vars

\* ------------------------------------------------------------------ claims
OpenSessionsOf(t) == {i \in DOMAIN sessions : sessions[i].owner = t /\ sessions[i].open}
ChainWritesIn(db, t) == {w \in db : w.by = t /\ w.chain = chain[t].no}
Finished(t) == phase[t] = "idle" /\ chain[t].no > 0

C4_ErrorUnchanged ==
    \A t \in Threads :
        Finished(t) /\ chain[t].firstErr # "none" => chain[t].result = chain[t].firstErr

\* C5 (as claimed): whatever session calls a thread made, every open session made
\* for it is the one registered for it in the session table (so at most one).
C5_AtMostOneOpenSession ==
    \A t \in Threads : OpenSessionsOf(t) \subseteq {thread_session_dict[t]}

\* C6: a session call of thread T leaves the entries of all other threads as they
\* were, and the session it works on, like every registered session, was made by
\* the thread it is registered for.
C6_ThreadAffinity ==
    /\ lastCall.op # "none" =>
           \A u \in Threads \ {lastCall.thread} : thread_session_dict[u] = lastCall.before[u]
    /\ lastCall.sid # NoSession => sessions[lastCall.sid].owner = lastCall.thread
    /\ \A u \in Threads :
           thread_session_dict[u] # NoSession => sessions[thread_session_dict[u]].owner = u

C6_Witness ==
    /\ lastCall.op = "close_session"
    /\ lastCall.err = "none"
    /\ \E u \in Threads \ {lastCall.thread} :
           /\ thread_session_dict[u] # NoSession
           /\ sessions[thread_session_dict[u]].pending # {}

\* C7: commit, rollback, close_session and the data-access operations, called by
\* a thread without an entry in the session table, fail with the "no active
\* transaction" error and leave the table as it was.
C7_NoActiveTransaction ==
    (/\ lastCall.op \in {"commit", "rollback", "close_session"} \cup DataOps
     /\ lastCall.before[lastCall.thread] = NoSession)
    => /\ lastCall.err = "NoActiveTransaction"
       /\ thread_session_dict = lastCall.before

C7_Witness ==
    /\ lastCall.op = "select_fields"
    /\ lastCall.err = "NoActiveTransaction"
    /\ \E u \in Threads : thread_session_dict[u] # NoSession

\* --------------------------------------------------------------- SpecFilter
\* Columns of the main entity a filter may name, and the values a row holds.
FilterFields == {"nombre", "apellidos"}
NullableFields == {"apellidos"}
ColumnValues == {"NULL", "x", "y"}
FilterTypes == {"EQUALS", "NOT_EQUALS"}
OperatorTypes == {"AND", "OR"}
MaxFilters == 3
None == [op |-> "None"]

FilterClause(field_name, filter_type, object_to_compare, operator_type, related) ==
    [field_name |-> field_name, filter_type |-> filter_type,
     object_to_compare |-> object_to_compare, operator_type |-> operator_type,
     related_filter_clauses |-> related]

\* Every filter_clauses list holding n clauses in all, nested ones included.
RECURSIVE ClauseLists(_)
ClauseLists(n) ==
    IF n = 0 THEN {<<>>}
    ELSE UNION {
           {<<FilterClause(f, ft, "x", o, r)>> \o rest :
                f \in FilterFields, ft \in FilterTypes, o \in OperatorTypes,
                r \in ClauseLists(k), rest \in ClauseLists(n - 1 - k)}
           : k \in 0..(n - 1)}

Contains(v, c) == \E i \in DOMAIN v : v[i] = c
startswith(v, c) == v # <<>> /\ v[1] = c
endswith(v, c) == v # <<>> /\ v[Len(v)] = c

\* Mutant of wrapped_value: the wildcards are added whatever the value holds.
wrapped_value_mut(filter_type, v) ==
    IF filter_type \in {"LIKE", "NOT_LIKE"} THEN <<"%">> \o v \o <<"%">>
    ELSE IF filter_type = "STARTS_WITH" THEN v \o <<"%">>
    ELSE IF filter_type = "ENDS_WITH" THEN <<"%">> \o v
    ELSE v

\* The value __resolve_filter_expression stores back into
\* filter_clause.object_to_compare and compares the column with.
wrapped_value(filter_type, v) ==
    IF filter_type \in {"LIKE", "NOT_LIKE"}
    THEN (IF ~Contains(v, "%") THEN <<"%">> \o v \o <<"%">> ELSE v)
    ELSE IF filter_type = "STARTS_WITH"
    THEN (IF ~endswith(v, "%") THEN v \o <<"%">> ELSE v)
    ELSE IF filter_type = "ENDS_WITH"
    THEN (IF ~startswith(v, "%") THEN <<"%">> \o v ELSE v)
    ELSE v

\* The clause object once __resolve_filter_expression has run on it.
clause_after_resolve(f) ==
    [f EXCEPT !.object_to_compare = wrapped_value(f.filter_type, @)]

\* __resolve_filter_expression: the expression built for one clause.
resolve_filter_expression(f) ==
    IF f.filter_type \in {"EQUALS", "NOT_EQUALS"}
    THEN [op |-> "cmp", field |-> f.field_name, filter_type |-> f.filter_type,
          value |-> f.object_to_compare]
    ELSE IF f.filter_type \in {"LIKE", "STARTS_WITH", "ENDS_WITH"}
    THEN [op |-> "like", field |-> f.field_name,
          value |-> wrapped_value(f.filter_type, f.object_to_compare)]
    ELSE IF f.filter_type = "NOT_LIKE"
    THEN [op |-> "not_like", field |-> f.field_name,
          value |-> wrapped_value(f.filter_type, f.object_to_compare)]
    ELSE [op |-> "ValueError"]

\* Mutant of close_run: only the last expression of the run is kept.
close_run_mut(f_operator, global_filter_content, aux_expression_list) ==
    IF global_filter_content = None
    THEN [op |-> f_operator,
          args |-> <<aux_expression_list[Len(aux_expression_list)]>>]
    ELSE [op |-> f_operator,
          args |-> <<global_filter_content,
                     aux_expression_list[Len(aux_expression_list)]>>]

\* f_operator(*aux) if global_filter_content is None
\* else f_operator(global_filter_content, *aux)
close_run(f_operator, global_filter_content, aux_expression_list) ==
    IF global_filter_content = None
    THEN [op |-> f_operator, args |-> aux_expression_list]
    ELSE [op |-> f_operator, args |-> <<global_filter_content>> \o aux_expression_list]

\* Mutant of operator_of: every clause counts as an AND clause.
operator_of_mut(f) == "and_"
operator_of(f) == IF f.operator_type = "OR" THEN "or_" ELSE "and_"

\* Mutant of nested_operator: the anchor's own operator wraps its unit.
nested_operator_mut(f) == operator_of(f)
\* f_operator_nested: the operator of the first related clause.
nested_operator(f) == operator_of(f.related_filter_clauses[1])

RECURSIVE inner_resolve_filter_clauses(_)
RECURSIVE resolve_loop(_, _, _, _, _)
\* The for loop of __inner_resolve_filter_clauses from clause idx on.
resolve_loop(lst, idx, f_operator, aux, global_filter_content) ==
    IF idx > Len(lst) THEN global_filter_content
    ELSE
    LET f == lst[idx]
        op == IF f_operator = "None" THEN operator_of(f) ELSE f_operator
        filter_expression == resolve_filter_expression(f)
        item ==
            IF f.related_filter_clauses # <<>>
            THEN [op |-> "self_group",
                  args |-> <<[op |-> nested_operator(f),
                              args |-> <<filter_expression,
                                         inner_resolve_filter_clauses(
                                             f.related_filter_clauses)>>]>>]
            ELSE filter_expression
        closes == \/ idx < Len(lst) /\ lst[idx + 1].operator_type # f.operator_type
                  \/ idx = Len(lst)
    IN IF closes
       THEN resolve_loop(lst, idx + 1, "None", <<>>,
                         close_run(op, global_filter_content, Append(aux, item)))
       ELSE resolve_loop(lst, idx + 1, op, Append(aux, item), global_filter_content)

inner_resolve_filter_clauses(lst) == resolve_loop(lst, 1, "None", <<>>, None)

\* The rows of the table and what the database makes of a WHERE expression:
\* SQL's three-valued logic, a comparison with NULL being unknown.
Rows == {row \in [FilterFields -> ColumnValues] :
             \A f \in FilterFields : row[f] = "NULL" => f \in NullableFields}

RECURSIVE Eval(_, _)
Eval(e, row) ==
    IF e.op = "cmp" THEN
        IF row[e.field] = "NULL" THEN "U"
        ELSE IF (row[e.field] = e.value) <=> (e.filter_type = "EQUALS") THEN "T" ELSE "F"
    ELSE IF e.op = "self_group" THEN Eval(e.args[1], row)
    ELSE LET vs == {Eval(e.args[i], row) : i \in DOMAIN e.args} IN
         IF e.op = "and_"
         THEN (IF "F" \in vs THEN "F" ELSE IF "U" \in vs THEN "U" ELSE "T")
         ELSE (IF "T" \in vs THEN "T" ELSE IF "U" \in vs THEN "U" ELSE "F")

Accepted(e) == {row \in Rows : Eval(e, row) = "T"}

\* Clauses i..j of lst belong to one run of consecutive clauses of one operator:
\* the compiler closes a run where the next clause's operator differs.
InSameRun(lst, i, j) == \A k \in i..j : lst[k].operator_type = lst[i].operator_type

\* Every list got by exchanging two sibling clauses that share their operator,
\* at the top level or inside a nested list.
RECURSIVE Swaps(_)
Swaps(lst) ==
    {[lst |-> [lst EXCEPT ![pr[1]] = lst[pr[2]], ![pr[2]] = lst[pr[1]]],
      in_run |-> InSameRun(lst, pr[1], pr[2])] :
        pr \in {q \in (DOMAIN lst) \X (DOMAIN lst) :
                    /\ q[1] < q[2]
                    /\ lst[q[1]].operator_type = lst[q[2]].operator_type
                    /\ lst[q[1]] # lst[q[2]]}}
    \cup UNION {
        {[lst |-> [lst EXCEPT ![i].related_filter_clauses = sw.lst],
          in_run |-> sw.in_run] : sw \in Swaps(lst[i].related_filter_clauses)}
        : i \in DOMAIN lst}

InitFilter ==
    /\ InitSessions /\ NoAliasWork /\ NoExtraWork
    /\ \E n \in 1..MaxFilters : filter_clauses \in ClauseLists(n)
    /\ filter_perm = filter_clauses
    /\ where_orig = <<>>
    /\ where_perm = <<>>
    /\ perm_in_run = TRUE
    /\ filter_pc = "input"

\* The caller reorders sibling clauses that share one operator.
Permute ==
    /\ filter_pc \in {"input", "permuted"}
    /\ \E sw \in Swaps(filter_perm) :
         /\ filter_perm' = sw.lst
         /\ perm_in_run' = (perm_in_run /\ sw.in_run)
    /\ filter_pc' = "permuted"
    /\ UNCHANGED <<filter_clauses, where_orig, where_perm>>
    /\ UNCHANGED <<aliasVars, daoVars, lastCall, svcVars, extraVars>>

\* __resolve_filter_clauses for the original and for the reordered list.
ResolveFilterClauses ==
    /\ filter_pc = "permuted"
    /\ where_orig' = inner_resolve_filter_clauses(filter_clauses)
    /\ where_perm' = inner_resolve_filter_clauses(filter_perm)
    /\ filter_pc' = "compiled"
    /\ UNCHANGED <<filter_clauses, filter_perm, perm_in_run>>
    /\ UNCHANGED <<aliasVars, daoVars, lastCall, svcVars, extraVars>>

NextFilter == Permute \/ ResolveFilterClauses
SpecFilter == InitFilter /\ [][NextFilter]_vars

\* ------------------------------------------------------------- SpecWildcard
\* One clause object compiled again and again, as when the caller reuses it.
MaxValueLen == 3
MaxCompiles == 2
PatternChars == {"a", "%"}
WildcardTypes == {"LIKE", "NOT_LIKE", "STARTS_WITH", "ENDS_WITH"}
CompareValues == UNION {[1..n -> PatternChars] : n \in 0..MaxValueLen}

InitWildcard ==
    /\ idle_but_wildcard
    /\ \E ft \in WildcardTypes \cup {"EQUALS"}, v \in CompareValues :
         LET f == FilterClause("nombre", ft, v, "AND", <<>>) IN
         wildcard = [pc |-> "input", clause |-> f, original |-> f, patterns |-> <<>>]

\* __resolve_filter_expression(filter_clause, ...) on the caller's object.
ResolveFilterExpression ==
    /\ wildcard.pc \in {"input", "compiled"}
    /\ Len(wildcard.patterns) < MaxCompiles
    /\ wildcard' = [wildcard EXCEPT
                       !.pc = "compiled",
                       !.patterns = Append(@, resolve_filter_expression(wildcard.clause).value),
                       !.clause = clause_after_resolve(@)]
    /\ UNCHANGED others_wildcard

NextWildcard == ResolveFilterExpression
SpecWildcard == InitWildcard /\ [][NextWildcard]_vars

\* ---------------------------------------------------------- SpecMaterialize
\* _separator_for_nested_fields = "$123$", taken as one character.
separator_for_nested_fields == "$"
MaxFields == 3
RowValues == {"u", "v"}

\* str.replace(old, new) for one-character old and new.
replace(s, old, new) == [i \in DOMAIN s |-> IF s[i] = old THEN new ELSE s[i]]

\* The projected fields: a column of the main entity, a column of the entity
\* behind relationship c, and a column of the entity behind c.d.
FieldPaths == {<<"a">>, <<"c", ".", "a">>, <<"c", ".", "d", ".", "a">>}
\* field_label: empty when the caller gave none.
FieldLabels == {<<>>, <<"c">>, <<"c", ".", "a">>}

\* FieldClause.__init__ sets field_name (and aggregate_function) only:
\* is_select_distinct "missing" is the object as the constructor leaves it,
\* "False" one whose is_select_distinct and field_label the caller has set.
FieldClause(field_name, is_select_distinct, field_label) ==
    [field_name |-> field_name, is_select_distinct |-> is_select_distinct,
     field_label |-> field_label]
FieldClauses ==
    {FieldClause(p, "missing", <<>>) : p \in FieldPaths}
    \cup {FieldClause(p, "False", l) : p \in FieldPaths, l \in FieldLabels}

\* A dict in insertion order: a sequence of <<key, value>>.
Keys(d) == [i \in DOMAIN d |-> d[i][1]]
Put(d, k, v) ==
    IF \E i \in DOMAIN d : d[i][1] = k
    THEN [i \in DOMAIN d |-> IF d[i][1] = k THEN <<k, v>> ELSE d[i]]
    ELSE Append(d, <<k, v>>)

\* The label __resolve_field_clauses gives a field.
field_alias_for_query(f) ==
    IF f.field_label # <<>> THEN f.field_label
    ELSE IF Contains(f.field_name, ".")
    THEN replace(f.field_name, ".", separator_for_nested_fields)
    ELSE f.field_name

\* __resolve_field_clauses: field_alias_for_result, or the error raised.
RECURSIVE resolve_field_clauses(_, _)
resolve_field_clauses(field_clauses, field_alias_for_result) ==
    IF field_clauses = <<>> THEN [err |-> "none", dict |-> field_alias_for_result]
    ELSE LET f == Head(field_clauses) IN
         IF f.is_select_distinct = "missing"
         THEN [err |-> "AttributeError", dict |-> field_alias_for_result]
         ELSE resolve_field_clauses(Tail(field_clauses),
                  Put(field_alias_for_result, field_alias_for_query(f), f.field_name))

\* key=lambda x: (len(x.field_split), x.field_name)
FieldKeyLess(x, y) ==
    LET lx == Len(split(x, separator_for_nested_fields))
        ly == Len(split(y, separator_for_nested_fields)) IN
    \/ lx < ly
    \/ lx = ly /\ StrLess(x, y)

\* sorted(fields_sorted_list, key=..., reverse=False): stable.
RECURSIVE sorted_fields(_)
sorted_fields(lst) ==
    IF lst = <<>> THEN <<>>
    ELSE LET n == Len(lst)
             x == lst[n]
             front == sorted_fields(SubSeq(lst, 1, n - 1))
             k == Cardinality({i \in DOMAIN front : ~FieldKeyLess(x, front[i])})
         IN SubSeq(front, 1, k) \o <<x>> \o SubSeq(front, k + 1, n - 1)

\* Nested dicts: a dict node, a value node, or the error raised on the way.
DictNode(m) == [kind |-> "dict", m |-> m]
ValNode(v) == [kind |-> "val", v |-> v]
ErrNode == [kind |-> "error"]
SetItem(d, x, node) == DictNode([k \in DOMAIN d.m \cup {x} |-> IF k = x THEN node ELSE d.m[k]])

\* Mutant of set_nested: an intermediate dict is created anew every time.
RECURSIVE set_nested_mut(_, _, _)
set_nested_mut(last_dict, rel_split, v) ==
    IF last_dict.kind # "dict" THEN ErrNode
    ELSE IF Len(rel_split) = 1 THEN SetItem(last_dict, rel_split[1], ValNode(v))
    ELSE LET below == set_nested_mut(DictNode(<<>>), Tail(rel_split), v) IN
         IF below.kind = "error" THEN ErrNode
         ELSE SetItem(last_dict, rel_split[1], below)

\* for idx, x in enumerate(rel_split): descend, creating the dict that is not
\* there, and store the value at the last position.
RECURSIVE set_nested(_, _, _)
set_nested(last_dict, rel_split, v) ==
    IF last_dict.kind # "dict" THEN ErrNode
    ELSE IF Len(rel_split) = 1 THEN SetItem(last_dict, rel_split[1], ValNode(v))
    ELSE LET x == rel_split[1]
             child == IF x \in DOMAIN last_dict.m THEN last_dict.m[x] ELSE DictNode(<<>>)
             below == set_nested(child, Tail(rel_split), v)
         IN IF below.kind = "error" THEN ErrNode
            ELSE SetItem(last_dict, x, below)

\* for k, v in r.items(): ...
RECURSIVE nest_items(_, _)
nest_items(items, final_dict) ==
    IF items = <<>> \/ final_dict.kind = "error" THEN final_dict
    ELSE nest_items(Tail(items),
                    set_nested(final_dict, split(Head(items)[1], "."), Head(items)[2]))

\* new_dict[key_] = row[f.field_name] over the sorted fields.
RECURSIVE sorted_row(_, _, _)
sorted_row(fields_sorted_list, row, new_dict) ==
    IF fields_sorted_list = <<>> THEN new_dict
    ELSE LET f == Head(fields_sorted_list) IN
         sorted_row(Tail(fields_sorted_list), row,
                    Put(new_dict, replace(f, separator_for_nested_fields, "."), row[f]))

\* __convert_from_dict_to_entity for one row: the nested dict handed to
\* deserialize_model.
convert_from_dict_to_entity(row, field_alias_for_result) ==
    LET fields_sorted_list == sorted_fields(Keys(field_alias_for_result))
    IN nest_items(sorted_row(fields_sorted_list, row, <<>>), DictNode(<<>>))

InitMaterialize ==
    /\ idle_but_materializer
    /\ \E n \in 1..MaxFields : \E fc \in [1..n -> FieldClauses] :
         materializer = [pc |-> "input", field_clauses |-> fc,
                         field_alias_for_result |-> <<>>, row |-> <<>>,
                         final_dict |-> DictNode(<<>>)]

\* __select up to the statement: __resolve_field_clauses.
ResolveFieldClauses ==
    /\ materializer.pc = "input"
    /\ LET r == resolve_field_clauses(materializer.field_clauses, <<>>) IN
       materializer' = [materializer EXCEPT
                          !.pc = IF r.err = "none" THEN "compiled" ELSE r.err,
                          !.field_alias_for_result = r.dict]
    /\ UNCHANGED others_materializer

\* my_session.execute(stmt).all() gives a row keyed by the labels, and
\* __convert_from_dict_to_entity shapes it.
ExecuteAndConvert ==
    /\ materializer.pc = "compiled"
    /\ LET labels == {materializer.field_alias_for_result[i][1] :
                          i \in DOMAIN materializer.field_alias_for_result}
       IN \E row \in [labels -> RowValues] :
            LET d == convert_from_dict_to_entity(row, materializer.field_alias_for_result)
            IN materializer' = [materializer EXCEPT
                                  !.pc = IF d.kind = "error" THEN "TypeError" ELSE "done",
                                  !.row = row,
                                  !.final_dict = d]
    /\ UNCHANGED others_materializer

NextMaterialize == ResolveFieldClauses \/ ExecuteAndConvert
SpecMaterialize == InitMaterialize /\ [][NextMaterialize]_vars

\* --------------------------------------------------------------- SpecSelect
\* One call of the generic select: the caller builds the clause objects from
\* keywords, then __select compiles them and executes the statement.
MaxSelectJoins == 2
EnumJoinTypes == {"INNER_JOIN", "LEFT_JOIN"}
EnumFilterTypes == {"EQUALS", "NOT_EQUALS", "LIKE", "NOT_LIKE", "IN", "NOT_IN",
                    "LESS_THAN", "LESS_THAN_OR_EQUALS", "GREATER_THAN",
                    "GREATER_THAN_OR_EQUALS", "STARTS_WITH", "ENDS_WITH"}

NoError == [type |-> "none", names |-> {}, directs_to |-> "none"]
Error(type, names) == [type |-> type, names |-> names, directs_to |-> "none"]

\* What the caller asks for: joins by path and join keyword, and at most one
\* clause of another kind.
JoinRequestPaths == {<<"a">>, <<"a", ".", "b">>, <<"x">>, <<"d">>}
JoinKeywords == {"INNER_JOIN", "LEFT_JOIN", "RIGHT_JOIN"}
OtherPaths == {<<"d">>, <<"x">>, <<"a", ".", "d">>, <<"a", ".", "x">>}
NoClause == [kind |-> "none", field_name |-> <<>>, filter_type |-> "none"]
OtherRequests ==
    {NoClause}
    \cup {[kind |-> k, field_name |-> p, filter_type |-> "none"] :
              k \in {"order_by", "group_by", "field"}, p \in OtherPaths}
    \cup {[kind |-> "filter", field_name |-> p, filter_type |-> ft] :
              p \in OtherPaths, ft \in {"EQUALS", "UNSUPPORTED"}}

\* _find_enum_by_keyword: the member, or KeyError.
find_enum_by_keyword(keyword, enum_type) ==
    IF keyword \in enum_type THEN [err |-> NoError, member |-> keyword]
    ELSE [err |-> Error("KeyError", {}), member |-> "none"]

\* JoinClause.__init__ / FilterClause.__init__ over the caller's requests.
RECURSIVE build_joins(_)
build_joins(reqs) ==
    IF reqs = <<>> THEN [err |-> NoError, clauses |-> <<>>]
    ELSE LET e == find_enum_by_keyword(Head(reqs).join_type, EnumJoinTypes)
             rest == build_joins(Tail(reqs))
         IN IF e.err.type # "none" THEN [err |-> e.err, clauses |-> <<>>]
            ELSE IF rest.err.type # "none" THEN rest
            ELSE [err |-> NoError,
                  clauses |-> <<[field_name |-> Head(reqs).field_name,
                                 join_type |-> e.member,
                                 is_join_with_fetch |-> Head(reqs).is_join_with_fetch]>> \o rest.clauses]

build_other(req) ==
    IF req.kind = "filter"
    THEN find_enum_by_keyword(req.filter_type, EnumFilterTypes).err
    ELSE NoError

\* The error __resolve_field_aliases stops with, and what its message names.
alias_error(lst, st) ==
    IF st.err = "none" THEN NoError
    ELSE LET jc == lst[Len(st.built) + 1]
             join_split == split(jc.field_name, ".")
         IN IF st.err = "KeyError"
            THEN Error("KeyError", {join(SubSeq(join_split, 1, Len(join_split) - 1), ".")})
            ELSE IF st.err = "AttributeError"
            THEN Error("AttributeError", {join_split[Len(join_split)]})
            ELSE Error(st.err, {})

\* __resolve_fields_info for one clause.
resolve_fields_info(aliases_dict, clause) ==
    LET clause_split == split(clause.field_name, ".")
        nested == Len(clause_split) > 1
        entity_breadcrumb == join(SubSeq(clause_split, 1, Len(clause_split) - 1), ".")
        field_to_work_with == clause_split[Len(clause_split)]
    IN IF nested /\ entity_breadcrumb \notin DOMAIN aliases_dict
       THEN Error("ValueError", {entity_breadcrumb, clause.field_name})
       ELSE LET clause_entity == IF nested THEN aliases_dict[entity_breadcrumb].model_type
                                 ELSE entity_type
            IN IF ~IsColumn(clause_entity, field_to_work_with)
               THEN Error("AttributeError", {field_to_work_with})
               ELSE NoError

\* __resolve_field_clauses: the fields' info, then f.is_select_distinct, which
\* FieldClause.__init__ does not set.
resolve_field_clause(aliases_dict, clause) ==
    LET e == resolve_fields_info(aliases_dict, clause) IN
    IF e.type # "none" THEN e ELSE Error("AttributeError", {})

\* An accessor of a relationship, as it stands in a join or in an eager-load
\* option: plain, or of_type(alias).
NoAlias == [name |-> <<>>, id |-> 0]
Accessor(model_field_value, alias) == [accessor |-> model_field_value, of_type |-> alias]

\* join_options of one clause: b[0] for each pair b of the owner's
\* breadcrumb, then relationship_to_join.of_type(alias).
join_options_of(helper) ==
    [i \in 1..Len(helper.owner_breadcrumb) |-> Accessor(helper.owner_breadcrumb[i][1], NoAlias)]
    \o <<Accessor(helper.model_field_value, helper.model_alias)>>

\* __resolve_join_clause: the joins and the contains_eager options of the
\* statement, or the error. The test of each clause reads
\* EnumJoinTypes.RIGHT_JOIN.
RECURSIVE resolve_join_clause(_, _, _, _)
resolve_join_clause(jcs, aliases_dict, is_select_with_fields, stmt) ==
    IF jcs = <<>> THEN [err |-> NoError, joins |-> stmt.joins, options |-> stmt.options]
    ELSE LET j == Head(jcs) IN
         IF j.join_type # "None" /\ "RIGHT_JOIN" \notin EnumJoinTypes
         THEN [err |-> Error("AttributeError", {}), joins |-> stmt.joins,
               options |-> stmt.options]
         ELSE IF j.join_type # "None" /\ j.join_type = "RIGHT_JOIN"
         THEN [err |-> [type |-> "ValueError", names |-> {},
                        directs_to |-> "select_by_statement"],
               joins |-> stmt.joins, options |-> stmt.options]
         ELSE LET join_options == join_options_of(aliases_dict[j.field_name]) IN
              resolve_join_clause(Tail(jcs), aliases_dict, is_select_with_fields,
                  [joins |-> Append(stmt.joins,
                                    [field_name |-> j.field_name,
                                     target |-> join_options[Len(join_options)],
                                     isouter |-> j.join_type = "LEFT_JOIN"]),
                   options |-> IF j.is_join_with_fetch /\ ~is_select_with_fields
                               THEN Append(stmt.options, join_options)
                               ELSE stmt.options])

\* __resolve_filter_clauses for the one filter clause.
resolve_filter_clause(aliases_dict, clause) ==
    LET e == resolve_fields_info(aliases_dict, clause) IN
    IF e.type # "none" THEN e
    ELSE IF clause.filter_type \notin EnumFilterTypes THEN Error("ValueError", {})
    ELSE NoError

\* The first exception among the steps of __select, in the order it makes
\* them.
RECURSIVE first_error(_)
first_error(errs) ==
    IF errs = <<>> THEN NoError
    ELSE IF Head(errs).type # "none" THEN Head(errs)
    ELSE first_error(Tail(errs))

\* The alias dictionary of the call: built when there are join clauses.
select_aliases(lst) ==
    IF lst # <<>>
    THEN resolve_from(lst, 1, AliasState(<<>>, <<>>, "none"))
    ELSE AliasState(<<>>, <<>>, "none")

select_fields_error(aliases_dict, other) ==
    IF other.kind = "field" THEN resolve_field_clause(aliases_dict, other) ELSE NoError

select_clauses_error(aliases_dict, other) ==
    IF other.kind = "filter" THEN resolve_filter_clause(aliases_dict, other)
    ELSE IF other.kind \in {"group_by", "order_by"}
    THEN resolve_fields_info(aliases_dict, other)
    ELSE NoError

compiled(err, aliases_dict, stmt) ==
    [err |-> err, aliases_dict |-> aliases_dict,
     joins |-> IF err.type = "none" THEN stmt.joins ELSE <<>>,
     options |-> IF err.type = "none" THEN stmt.options ELSE <<>>]

compile_steps(lst, st, jn, other) ==
    compiled(first_error(<<alias_error(lst, st),
                           select_fields_error(st.dict, other),
                           jn.err,
                           select_clauses_error(st.dict, other)>>),
             st.dict, jn)

compile_with_aliases(lst, st, other) ==
    compile_steps(lst, st,
                  resolve_join_clause(lst, st.dict, other.kind = "field",
                                      [joins |-> <<>>, options |-> <<>>]),
                  other)

compile_sorted(lst, other) == compile_with_aliases(lst, select_aliases(lst), other)

\* __select up to the finished statement: aliases, field clauses, joins,
\* then filters, group-by and order-by.
compile_select(jcs, other) == compile_sorted(sorted_joins(jcs), other)

executed_mut(c) ==
    [err |-> c.err, aliases_dict |-> c.aliases_dict, joins |-> c.joins,
     options |-> c.options, executed |-> 1]
\* my_session.execute(stmt), reached when no step raised.
executed(c) ==
    [err |-> c.err, aliases_dict |-> c.aliases_dict, joins |-> c.joins,
     options |-> c.options,
     executed |-> IF c.err.type = "none" THEN 1 ELSE 0]

\* Mutant of select: the statement is executed whatever the compilation gave.
select_mut(jcs, other) == executed_mut(compile_select(jcs, other))

\* __select: compile, then my_session.execute(stmt).
select(jcs, other) == executed(compile_select(jcs, other))

\* The call's state after the constructors / after __select.
after_build(q, b, e) ==
    [q EXCEPT !.pc = IF e.type = "none" THEN "built" ELSE "rejected",
              !.err = e,
              !.join_clauses = b.clauses]
after_select(q, r) ==
    [q EXCEPT !.pc = IF r.err.type = "none" THEN "done" ELSE "failed",
              !.err = r.err,
              !.aliases_dict = r.aliases_dict,
              !.joins = r.joins,
              !.options = r.options,
              !.executed = r.executed]

build_error(b, other) == IF b.err.type # "none" THEN b.err ELSE build_other(other)
build_clauses(q, b) == after_build(q, b, build_error(b, q.other))

InitSelect ==
    /\ idle_but_query
    /\ \E n \in 0..MaxSelectJoins :
       \E ps \in [1..n -> JoinRequestPaths], ks \in [1..n -> JoinKeywords],
          fs \in [1..n -> BOOLEAN], other \in OtherRequests :
         query = [pc |-> "request",
                  join_requests |-> [i \in 1..n |-> [field_name |-> ps[i], join_type |-> ks[i],
                                                     is_join_with_fetch |-> fs[i]]],
                  other |-> other, join_clauses |-> <<>>, err |-> NoError,
                  aliases_dict |-> <<>>, joins |-> <<>>, options |-> <<>>, executed |-> 0]

\* The caller constructs the clause objects.
BuildClauses ==
    /\ query.pc = "request"
    /\ query' = build_clauses(query, build_joins(query.join_requests))
    /\ UNCHANGED others_query

\* dao.select(...) / dao.select_fields(...)
Select ==
    /\ query.pc = "built"
    /\ query' = after_select(query, select(query.join_clauses, query.other))
    /\ UNCHANGED others_query

NextSelect == BuildClauses \/ Select
SpecSelect == InitSelect /\ [][NextSelect]_vars

\* ----------------------------------------------------------------- SpecJson
\* A query arrives as a JSON dictionary; JsonQuery turns its "filters" entry
\* into clause objects and the DAO compiles them.  A dictionary of the wire
\* form is the record [dict |-> its keys and values]; a FilterClause object is
\* the record FilterClause(...) builds.
MaxWireFilters == 2

Dict(items) == [dict |-> items]
is_dict(x) == "dict" \in DOMAIN x

\* The wire form of a list of filters: what json.loads gives for the query
\* the objects stand for, nested filters included.
RECURSIVE to_wire(_)
to_wire(lst) ==
    [i \in DOMAIN lst |->
        Dict([field_name |-> lst[i].field_name,
              filter_type |-> lst[i].filter_type,
              object_to_compare |-> lst[i].object_to_compare,
              operator_type |-> lst[i].operator_type,
              related_filter_clauses |-> to_wire(lst[i].related_filter_clauses)])]

\* JsonQuery.filters setter: FilterClause(**f) for each f of the list;
\* FilterClause.__init__ stores related_filter_clauses as it is given.
filters_setter(filters) ==
    [i \in DOMAIN filters |->
        LET f == filters[i].dict IN
        FilterClause(f.field_name,
                     find_enum_by_keyword(f.filter_type, EnumFilterTypes).member,
                     f.object_to_compare,
                     f.operator_type,
                     f.related_filter_clauses)]

\* __append_all_filters(filter_clause, filter_list) for each clause of the
\* list: the clause is appended, then its related_filter_clauses attribute is
\* read, which a dict does not have.
RECURSIVE append_all_filters(_, _)
append_all_filters(lst, acc) ==
    IF lst = <<>> \/ acc.err # NoError THEN acc
    ELSE LET filter_clause == Head(lst)
             appended == [acc EXCEPT !.filter_list = Append(@, filter_clause)]
         IN  IF is_dict(filter_clause)
             THEN [appended EXCEPT !.err = Error("AttributeError", {<<"related_filter_clauses">>})]
             ELSE append_all_filters(Tail(lst),
                      append_all_filters(filter_clause.related_filter_clauses, appended))

\* __resolve_filter_clauses: the clauses are flattened, then resolved into
\* the WHERE expression.
json_resolve_filter_clauses(fcs) ==
    LET all_filter_clauses == append_all_filters(fcs, [err |-> NoError, filter_list |-> <<>>])
    IN  IF all_filter_clauses.err # NoError
        THEN [err |-> all_filter_clauses.err, where |-> None]
        ELSE [err |-> NoError, where |-> inner_resolve_filter_clauses(fcs)]

InitJson ==
    /\ idle_but_jsonquery
    /\ \E n \in 1..MaxWireFilters : \E objects \in ClauseLists(n) :
         jsonquery = [pc |-> "wire", objects |-> objects, query_dict |-> to_wire(objects),
                      filters |-> <<>>, from_wire |-> None, from_objects |-> None]

\* JsonQuery(query_dict)
BuildJsonQuery ==
    /\ jsonquery.pc = "wire"
    /\ jsonquery' = [jsonquery EXCEPT !.pc = "built",
                                      !.filters = filters_setter(jsonquery.query_dict)]
    /\ UNCHANGED others_jsonquery

\* service.select(filter_clauses=query_object.filters), and the same call
\* with the clauses built as objects.
SelectJsonQuery ==
    /\ jsonquery.pc = "built"
    /\ jsonquery' = [jsonquery EXCEPT !.pc = "compiled",
                                      !.from_wire = json_resolve_filter_clauses(jsonquery.filters),
                                      !.from_objects = json_resolve_filter_clauses(jsonquery.objects)]
    /\ UNCHANGED others_jsonquery

NextJson == BuildJsonQuery \/ SelectJsonQuery
SpecJson == InitJson /\ [][NextJson]_vars

\* --------------------------------------------------------------- SpecCommit
\* BaseDao.commit step by step, one thread beside another.  A session holds
\* its pending writes, the statements flushed into its open transaction and
\* the objects attached to it; a write the database rejects (valid = FALSE)
\* makes the flush raise.
MaxPending == 1
CommitSteps == <<"flush", "expunge_all", "commit">>
\* the objects a thread loaded before (key 0) and the ones it wrote
LoadedOf(t) == [thread : {t}, key : {0}, valid : {TRUE}]
WritesOf(t) == [thread : {t}, key : 1..MaxPending, valid : BOOLEAN]

\* Session.flush(): the pending writes go to the transaction, their objects
\* stay attached; a rejected write raises and nothing is flushed.
session_flush_mut(s) ==
    [err |-> "none",
     s |-> [s EXCEPT !.flushed = @ \cup s.pending, !.pending = {}]]
session_flush(s) ==
    IF \E w \in s.pending : ~w.valid
    THEN [err |-> "IntegrityError", s |-> s]
    ELSE [err |-> "none",
          s |-> [s EXCEPT !.flushed = @ \cup s.pending, !.pending = {}]]

\* Session.expunge_all(): no object is attached any more, the ones not yet
\* flushed are forgotten.
session_expunge_all(s) == [s EXCEPT !.attached = {}, !.pending = {}]

\* Session.commit(): what is still pending is flushed, then the transaction
\* is committed.
session_commit(s, db) ==
    LET f == session_flush(s) IN
    IF f.err # "none" THEN [err |-> f.err, s |-> s, db |-> db]
    ELSE [err |-> "none", s |-> [f.s EXCEPT !.flushed = {}], db |-> db \cup f.s.flushed]

InitCommit ==
    /\ idle_but_committer
    /\ \E dict \in [Threads -> {NoSession} \cup Threads],
          pending \in [Threads -> SUBSET UNION {WritesOf(t) : t \in Threads}],
          loaded \in [Threads -> SUBSET UNION {LoadedOf(t) : t \in Threads}] :
         /\ \A t \in Threads : dict[t] \in {NoSession, t}
         /\ \A t \in Threads : pending[t] \subseteq WritesOf(t) /\ loaded[t] \subseteq LoadedOf(t)
         /\ \A t \in Threads : dict[t] = NoSession => pending[t] = {} /\ loaded[t] = {}
         /\ committer =
              [pc |-> "run",
               w |-> [dict |-> dict,
                      ses |-> [t \in Threads |->
                                 [owner |-> t, pending |-> pending[t], flushed |-> {},
                                  attached |-> loaded[t] \cup pending[t]]],
                      db |-> {}],
               asked |-> pending,
               at |-> [t \in Threads |-> "commit"],
               err |-> [t \in Threads |-> "none"],
               log |-> [t \in Threads |-> <<>>]]

\* cls.get_session_for_current_thread().flush()
CommitFlush(t) ==
    /\ committer.pc = "run"
    /\ committer.at[t] = "commit"
    /\ LET g == get_session_for_current_thread(committer.w, t) IN
       IF g.err # "none"
       THEN committer' = [committer EXCEPT !.at[t] = "raised", !.err[t] = g.err]
       ELSE LET f == session_flush(committer.w.ses[g.sid]) IN
            IF f.err # "none"
            THEN committer' = [committer EXCEPT !.at[t] = "raised", !.err[t] = f.err]
            ELSE committer' = [committer EXCEPT !.at[t] = "flushed",
                                                !.w.ses[g.sid] = f.s,
                                                !.log[t] = Append(@, "flush")]
    /\ UNCHANGED others_committer

\* cls.get_session_for_current_thread().expunge_all()
CommitExpungeAll(t) ==
    /\ committer.pc = "run"
    /\ committer.at[t] = "flushed"
    /\ LET g == get_session_for_current_thread(committer.w, t) IN
       IF g.err # "none"
       THEN committer' = [committer EXCEPT !.at[t] = "raised", !.err[t] = g.err]
       ELSE committer' = [committer EXCEPT !.at[t] = "expunged",
                                           !.w.ses[g.sid] = session_expunge_all(@),
                                           !.log[t] = Append(@, "expunge_all")]
    /\ UNCHANGED others_committer

\* cls.get_session_for_current_thread().commit()
CommitCommit(t) ==
    /\ committer.pc = "run"
    /\ committer.at[t] = "expunged"
    /\ LET g == get_session_for_current_thread(committer.w, t) IN
       IF g.err # "none"
       THEN committer' = [committer EXCEPT !.at[t] = "raised", !.err[t] = g.err]
       ELSE LET c == session_commit(committer.w.ses[g.sid], committer.w.db) IN
            IF c.err # "none"
            THEN committer' = [committer EXCEPT !.at[t] = "raised", !.err[t] = c.err]
            ELSE committer' = [committer EXCEPT !.at[t] = "committed",
                                                !.w.ses[g.sid] = c.s,
                                                !.w.db = c.db,
                                                !.log[t] = Append(@, "commit")]
    /\ UNCHANGED others_committer

NextCommit ==
    \E t \in Threads : CommitFlush(t) \/ CommitExpungeAll(t) \/ CommitCommit(t)
SpecCommit == InitCommit /\ [][NextCommit]_vars

\* -------------------------------------------------------------- SpecFactory
\* ServiceFactory.get_service called from several threads.  The method holds
\* no lock, so a thread can be preempted between its statements: the test of
\* the dictionary, the instantiation, the store and the final read are steps
\* of their own.  Instances of a class are numbered as they are created; 0
\* stands for "no instance".
MaxCalls == 2
NoInstance == 0

\* servicehandler.py: the instances made while the module is imported, before
\* any request thread runs.
servicehandler(imported) ==
    [c \in Services |-> IF c \in imported THEN 1 ELSE NoInstance]

InitFactory ==
    /\ idle_but_factory
    /\ \E imported \in SUBSET Services :
         factory = [pc |-> "run",
                    services |-> servicehandler(imported),
                    created |-> [c \in Services |-> IF c \in imported THEN 1 ELSE 0],
                    at |-> [t \in Threads |-> "idle"],
                    class_name |-> [t \in Threads |-> "none"],
                    instance |-> [t \in Threads |-> NoInstance],
                    calls |-> [t \in Threads |-> 0],
                    returned |-> {}]

\* class_name = class_to_instanciate.__name__
GetService(t) ==
    /\ factory.pc = "run"
    /\ factory.at[t] = "idle"
    /\ factory.calls[t] < MaxCalls
    /\ \E c \in Services :
         factory' = [factory EXCEPT !.at[t] = "test", !.class_name[t] = c,
                                    !.calls[t] = @ + 1]
    /\ UNCHANGED others_factory

\* if class_name not in cls.__services:
TestServices(t) ==
    /\ factory.pc = "run"
    /\ factory.at[t] = "test"
    /\ factory' = [factory EXCEPT
                      !.at[t] = IF factory.services[factory.class_name[t]] = NoInstance
                                THEN "instantiate" ELSE "return"]
    /\ UNCHANGED others_factory

\* class_to_instanciate()
Instantiate(t) ==
    /\ factory.pc = "run"
    /\ factory.at[t] = "instantiate"
    /\ LET c == factory.class_name[t] IN
       factory' = [factory EXCEPT !.at[t] = "store",
                                  !.created[c] = @ + 1,
                                  !.instance[t] = factory.created[c] + 1]
    /\ UNCHANGED others_factory

\* cls.__services[class_name] = <the new instance>
StoreService(t) ==
    /\ factory.pc = "run"
    /\ factory.at[t] = "store"
    /\ factory' = [factory EXCEPT !.at[t] = "return",
                                  !.services[factory.class_name[t]] = factory.instance[t],
                                  !.instance[t] = NoInstance]
    /\ UNCHANGED others_factory

\* return cls.__services[class_name]
ReturnService(t) ==
    /\ factory.pc = "run"
    /\ factory.at[t] = "return"
    /\ LET c == factory.class_name[t] IN
       factory' = [factory EXCEPT !.at[t] = "idle", !.class_name[t] = "none",
                                  !.returned = @ \cup {<<c, factory.services[c]>>}]
    /\ UNCHANGED others_factory

NextFactory ==
    \E t \in Threads :
        \/ GetService(t)
        \/ TestServices(t)
        \/ Instantiate(t)
        \/ StoreService(t)
        \/ ReturnService(t)
SpecFactory == InitFactory /\ [][NextFactory]_vars

\* ------------------------------------------------------------------- SpecPk
\* find_entity_id_field_name over entity types of a few columns, each a
\* primary-key column or not.
MaxColumns == 3
ColumnNames == {"id", "usuario_id", "rol_id", "nombre"}
Column(name, primary_key) == [name |-> name, primary_key |-> primary_key]

\* The tables: columns of distinct names, in declaration order.
EntityTypes ==
    UNION {{cols \in [1..n -> [name : ColumnNames, primary_key : BOOLEAN]] :
               \A i, j \in 1..n : cols[i].name = cols[j].name => i = j}
           : n \in 0..MaxColumns}

\* [key.name for key in inspect(entity_type).primary_key]
RECURSIVE primary_key_names(_)
primary_key_names(cols) ==
    IF cols = <<>> THEN <<>>
    ELSE (IF Head(cols).primary_key THEN <<Head(cols).name>> ELSE <<>>)
         \o primary_key_names(Tail(cols))

\* find_entity_id_field_name: the guard compares the list the comprehension
\* built with None.
find_entity_id_field_name(cols) ==
    LET primary_keys == [list |-> primary_key_names(cols)] IN
    IF primary_keys = None
    THEN [err |-> "RuntimeError", kind |-> "none", value |-> <<>>]
    ELSE IF Len(primary_keys.list) = 1
    THEN [err |-> "none", kind |-> "str", value |-> <<primary_keys.list[1]>>]
    ELSE [err |-> "none", kind |-> "list", value |-> primary_keys.list]

InitPk ==
    /\ idle_but_pklookup
    /\ \E cols \in EntityTypes :
         pklookup = [pc |-> "type", columns |-> cols,
                     result |-> [err |-> "none", kind |-> "none", value |-> <<>>]]

FindEntityIdFieldName ==
    /\ pklookup.pc = "type"
    /\ pklookup' = [pklookup EXCEPT !.pc = "found",
                                    !.result = find_entity_id_field_name(pklookup.columns)]
    /\ UNCHANGED others_pklookup

NextPk == FindEntityIdFieldName
SpecPk == InitPk /\ [][NextPk]_vars

\* ---------------------------------------------------------------- SpecGroup
\* Filters over TipoCliente (codigo, descripcion: both NOT NULL), compiled
\* into a WHERE tree and evaluated on rows.  Texts are sequences of
\* characters.
MaxGroupFilters == 3
Text0 == <<"0">>
TextIv == <<"i", "v">>
TextRr == <<"r", "r">>
TextGeneric == <<"G", "e", "n", "e", "r", "i", "c">>

\* The comparisons of query_1 in main.py.
GroupLeaves ==
    {[field_name |-> "codigo", filter_type |-> "LIKE", object_to_compare |-> Text0],
     [field_name |-> "descripcion", filter_type |-> "LIKE", object_to_compare |-> TextIv],
     [field_name |-> "descripcion", filter_type |-> "LIKE", object_to_compare |-> TextRr],
     [field_name |-> "descripcion", filter_type |-> "EQUALS", object_to_compare |-> TextGeneric]}

\* Every list of n clauses in all over those comparisons, nested ones
\* included.
RECURSIVE GroupLists(_)
GroupLists(n) ==
    IF n = 0 THEN {<<>>}
    ELSE UNION {
           {<<FilterClause(l.field_name, l.filter_type, l.object_to_compare, o, r)>> \o rest :
                l \in GroupLeaves, o \in OperatorTypes,
                r \in GroupLists(k), rest \in GroupLists(n - 1 - k)}
           : k \in 0..(n - 1)}

\* query_1: filter_1, and filter_2 with filter_3 and filter_4 as its related
\* clauses, for the operators ops[1..4] of the four clauses.
query_1(ops) ==
    <<FilterClause("codigo", "LIKE", Text0, ops[1], <<>>),
      FilterClause("descripcion", "LIKE", TextIv, ops[2],
          <<FilterClause("descripcion", "LIKE", TextRr, ops[3], <<>>),
            FilterClause("descripcion", "EQUALS", TextGeneric, ops[4], <<>>)>>)>>

TipoClienteRows ==
    [codigo : {<<"0", "0", "0", "0">>, <<"1", "1", "1", "1">>},
     descripcion : {TextGeneric, <<"o", "t", "h", "e", "r">>, <<"p", "r", "i", "v", "y">>}]

\* column LIKE pattern, as the database evaluates it: % stands for any run
\* of characters, _ for one character.
RECURSIVE Like(_, _)
Like(v, pattern) ==
    IF pattern = <<>> THEN v = <<>>
    ELSE IF Head(pattern) = "%"
    THEN Like(v, Tail(pattern)) \/ (v # <<>> /\ Like(Tail(v), pattern))
    ELSE IF v = <<>> THEN FALSE
    ELSE (Head(pattern) = "_" \/ Head(pattern) = Head(v)) /\ Like(Tail(v), Tail(pattern))

\* Whether a row of NOT NULL columns satisfies a WHERE tree.
RECURSIVE Satisfies(_, _)
Satisfies(e, row) ==
    IF e.op = "cmp" THEN (row[e.field] = e.value) <=> (e.filter_type = "EQUALS")
    ELSE IF e.op = "like" THEN Like(row[e.field], e.value)
    ELSE IF e.op = "not_like" THEN ~Like(row[e.field], e.value)
    ELSE IF e.op = "self_group" THEN Satisfies(e.args[1], row)
    ELSE IF e.op = "and_" THEN \A i \in DOMAIN e.args : Satisfies(e.args[i], row)
    ELSE \E i \in DOMAIN e.args : Satisfies(e.args[i], row)

first_operator_changed(lst) ==
    [lst EXCEPT ![1].operator_type = IF @ = "AND" THEN "OR" ELSE "AND"]

InitGroup ==
    /\ idle_but_grouping
    /\ \E lst \in UNION {GroupLists(n) : n \in 1..MaxGroupFilters}
                  \cup {query_1(ops) : ops \in [1..4 -> OperatorTypes]} :
         grouping = [pc |-> "input", filter_clauses |-> lst,
                     where |-> None, where_other_first |-> None]

\* __resolve_filter_clauses for the list, and for the same list with the
\* other operator on its first clause.
ResolveGroup ==
    /\ grouping.pc = "input"
    /\ grouping' = [grouping EXCEPT
                       !.pc = "compiled",
                       !.where = inner_resolve_filter_clauses(grouping.filter_clauses),
                       !.where_other_first = inner_resolve_filter_clauses(
                                                 first_operator_changed(grouping.filter_clauses))]
    /\ UNCHANGED others_grouping

NextGroup == ResolveGroup
SpecGroup == InitGroup /\ [][NextGroup]_vars

\* ------------------------------------------------------------------ SpecAttr
\* m = service.method is read in one statement and m(...) is called in another:
\* BaseService.__getattribute__ decides when the attribute is READ which callable
\* it hands out; the callable is entered whenever the caller calls it.
MaxHeldCalls == 3

NoCallable == "none"

\* What __getattribute__ returns for a method tagged is_service_method.
getattribute(w, t) ==
    IF ~is_there_any_session_in_current_thread(w, t)
    THEN "transaction_func"
    ELSE "attr"

InitAttr ==
    /\ idle_but_methodref
    /\ methodref =
         [pc |-> "run",
          w |-> [dict |-> [t \in Threads |-> NoSession], ses |-> <<>>, db |-> {}],
          held |-> [t \in Threads |-> NoCallable],
          frames |-> [t \in Threads |-> <<>>],
          err |-> [t \in Threads |-> "none"],
          calls |-> 0,
          readWith |-> [t \in Threads |-> FALSE],
          createdOnActive |-> FALSE]

\* m = service.method, at top level or inside a method body.
GetAttribute(t) ==
    /\ methodref.pc = "run"
    /\ methodref.err[t] = "none"
    /\ methodref' =
         [methodref EXCEPT
            !.held[t] = getattribute(methodref.w, t),
            !.readWith[t] = is_there_any_session_in_current_thread(methodref.w, t)]
    /\ UNCHANGED others_methodref

\* m(...): transaction_func enters __start_transaction, which calls
\* create_session and then the method; the plain method is entered directly.
CallHeld(t) ==
    /\ methodref.pc = "run"
    /\ methodref.held[t] # NoCallable
    /\ methodref.err[t] = "none"
    /\ methodref.calls < MaxHeldCalls
    /\ Len(methodref.frames[t]) < MaxDepth
    /\ LET active == is_there_any_session_in_current_thread(methodref.w, t)
           wrapped == methodref.held[t] = "transaction_func"
           r == create_session(methodref.w, t, FALSE)
       IN methodref' =
            [methodref EXCEPT
               !.w = IF wrapped THEN r.w ELSE @,
               !.frames[t] = Append(@, [owner |-> wrapped]),
               !.calls = @ + 1,
               !.createdOnActive = @ \/ (wrapped /\ active)]
    /\ UNCHANGED others_methodref

\* self._dao.<op>(...) in the body of the method being executed.
HeldBodyDataAccess(t) ==
    /\ methodref.pc = "run"
    /\ Len(methodref.frames[t]) > 0
    /\ methodref.err[t] = "none"
    /\ \E op \in {"create", "select"} :
         LET r == data_access(methodref.w, t, op,
                              Write(t, methodref.calls, Len(methodref.frames[t])), FALSE)
         IN methodref' = [methodref EXCEPT !.w = r.w, !.err[t] = r.err]
    /\ UNCHANGED others_methodref

\* The method on top returns or lets its error through; the frame entered
\* through transaction_func runs the rest of __start_transaction. The error
\* that reaches the top-level caller is handled there.
HeldReturn(t) ==
    /\ methodref.pc = "run"
    /\ Len(methodref.frames[t]) > 0
    /\ LET f == methodref.frames[t][Len(methodref.frames[t])]
           e == methodref.err[t]
           x == IF e = "none"
                THEN commit_finally(methodref.w, t, FALSE, FALSE)
                ELSE except_finally(methodref.w, t, e, FALSE)
           e1 == IF f.owner THEN x.err ELSE e
       IN methodref' =
            [methodref EXCEPT
               !.w = IF f.owner THEN x.w ELSE @,
               !.frames[t] = Pop(@),
               !.err[t] = IF Len(methodref.frames[t]) = 1 THEN "none" ELSE e1]
    /\ UNCHANGED others_methodref

NextAttr ==
    \E t \in Threads :
        \/ GetAttribute(t)
        \/ CallHeld(t)
        \/ HeldBodyDataAccess(t)
        \/ HeldReturn(t)

SpecAttr == InitAttr /\ [][NextAttr]_vars

\* --------------------------------------------------------------- SpecBarrier
\* The error barriers: ErrorHandler decorates every function of a class whose
\* name does not start with "__" with catch_exceptions. BaseService has the
\* metaclass of core/exception/errorhandler.py, so a service call entered through
\* transaction_func is a nest of decorated functions: _BaseService__start_transaction
\* (which re-raises what it catches), the service method, the service methods it
\* calls. core/service/errorhandler.py holds a second decorator of the same name.
MaxNest == 3

ErrorHandlers == {"core.exception.errorhandler", "core.service.errorhandler"}

\* The exceptions a decorated function raises by itself: ValueError and
\* ServiceException (serviceimpl.py), KeyError (basedao.py 158), AttributeError,
\* and the database errors of SQLAlchemy.
RaisedTypes == {"ValueError", "KeyError", "AttributeError", "ServiceException",
                "IntegrityError", "OperationalError"}

\* CustomException.__known_error_types, the first member of each pair.
known_error_types == {"IntegrityError", "OperationalError"}

NoException == [cls |-> "none", exception_type |-> "none", source |-> "none",
                error_code |-> "none", layers |-> 0]

\* An exception that wraps nothing. ServiceException.__init__ sets
\* exception_type to its own class name and error_code to SERVICE_ERROR.
Raised(cls) ==
    [cls |-> cls,
     exception_type |-> IF cls = "ServiceException" THEN "ServiceException" ELSE "none",
     source |-> "none",
     error_code |-> IF cls = "ServiceException" THEN "SERVICE_ERROR" ELSE "none",
     layers |-> 0]

\* i18nutils.translate(key, languages, locale_iso=None, args=None) called with
\* the key alone: the required parameter languages is missing.
translate_key_only == "TypeError"

\* CustomException.handle_known_exception: the error it raises, "none" if it
\* returns.
handle_known_exception(exception_type) ==
    IF exception_type # "none" /\ exception_type \in known_error_types
    THEN translate_key_only
    ELSE "none"

\* CustomException(message, exc_instance, exc_type.__name__, error_line): the
\* exception that leaves the raise statement.
CustomException(e) ==
    IF handle_known_exception(e.cls) # "none"
    THEN Raised(handle_known_exception(e.cls))
    ELSE [cls |-> "CustomException", exception_type |-> e.cls, source |-> e.cls,
          error_code |-> "none", layers |-> e.layers + 1]

\* ServiceException(message=..., trace=..., error_code=None, source_exception=e,
\* exception_type=exc_type.__name__); __set_error_code_by_source_exception
\* sets OTHER_ERROR whatever the source is.
ServiceException(e) ==
    [cls |-> "ServiceException", exception_type |-> e.cls, source |-> e.cls,
     error_code |-> "OTHER_ERROR", layers |-> e.layers + 1]

\* The decorator of core/exception/errorhandler.py: e leaves the function,
\* the result leaves the decorator.
catch_exceptions(e) ==
    IF e.cls = "CustomException" THEN e ELSE CustomException(e)

\* The decorator of core/service/errorhandler.py.
service_catch_exceptions(e) ==
    IF e.cls = "ServiceException" THEN e ELSE ServiceException(e)

WrapperOf(handler) ==
    IF handler = "core.exception.errorhandler" THEN "CustomException" ELSE "ServiceException"

InitBarrier ==
    /\ idle_but_barrier
    /\ \E h \in ErrorHandlers :
         barrier = [pc |-> "calling", handler |-> h, depth |-> 0, raisedAt |-> 0,
                    original |-> NoException, exc |-> NoException, passed |-> 0]

\* A decorated function calls the next decorated function.
EnterDecorated ==
    /\ barrier.pc = "calling"
    /\ barrier.depth < MaxNest
    /\ barrier' = [barrier EXCEPT !.depth = @ + 1]
    /\ UNCHANGED others_barrier

\* The function being executed raises.
RaiseInFunction ==
    /\ barrier.pc = "calling"
    /\ barrier.depth > 0
    /\ \E cls \in RaisedTypes :
         barrier' = [barrier EXCEPT !.pc = "raising", !.raisedAt = barrier.depth,
                                    !.original = Raised(cls), !.exc = Raised(cls)]
    /\ UNCHANGED others_barrier

\* The exception in flight leaves one decorated function through its except
\* clauses; out of the outermost one it is the caller's.
LeaveDecorated ==
    /\ barrier.pc = "raising"
    /\ barrier.depth > 0
    /\ barrier' =
         [barrier EXCEPT
            !.exc = IF barrier.handler = "core.exception.errorhandler"
                    THEN catch_exceptions(barrier.exc)
                    ELSE service_catch_exceptions(barrier.exc),
            !.depth = @ - 1,
            !.passed = @ + 1,
            !.pc = IF barrier.depth = 1 THEN "caught" ELSE "raising"]
    /\ UNCHANGED others_barrier

NextBarrier ==
    \/ EnterDecorated
    \/ RaiseInFunction
    \/ LeaveDecorated

SpecBarrier == InitBarrier /\ [][NextBarrier]_vars

\* ------------------------------------------------------------------ SpecSync
\* The many-to-many synchronization: BaseDao._update_many_to_many and
\* UsuarioRolDaoImpl.update_usuarios_roles_by_rol compare an old list with a
\* new one; RolServiceImpl.update calls the latter for the role it modifies.
MaxUsers == 3

Usuarios == 1..MaxUsers
\* The role being modified and one other role with rows of its own.
RolId == 1
OtherRolId == 2

UsuarioRol(rolid, usuarioid) == [rolid |-> rolid, usuarioid |-> usuarioid]
RowsOfRol(table, rol_id) == {x \in table : x.rolid = rol_id}

\* Lists without repetition of the elements of a set, in any order.
ListsOf(S) ==
    {l \in UNION {[1..n -> S] : n \in 0..Cardinality(S)} :
        \A i, j \in 1..Len(l) : i # j => l[i] # l[j]}
OrderingsOf(S) == {l \in ListsOf(S) : Len(l) = Cardinality(S)}

\* UsuarioRol.__eq__ compares rolid and usuarioid.
is_exists(u, lst) == \E i \in 1..Len(lst) : lst[i] = u

\* UsuarioRolDaoImpl.delete: DELETE ... WHERE rolid = .. AND usuarioid = ..
\* UsuarioRolDaoImpl.create: INSERT; the composite primary key rejects a row
\* that is stored already.
NoSync(table) == [table |-> table, err |-> "none", deleted |-> <<>>, created |-> <<>>]

\* for u in old: if u is in no element of new: self.delete(u)
RECURSIVE delete_absent(_, _, _)
delete_absent(s, old, new) ==
    IF old = <<>> THEN s
    ELSE IF is_exists(Head(old), new) THEN delete_absent(s, Tail(old), new)
    ELSE delete_absent([s EXCEPT !.table = @ \ {Head(old)},
                                 !.deleted = Append(@, Head(old))],
                       Tail(old), new)

\* for u_new in new: if u_new is in no element of old: self.create(u_new)
RECURSIVE create_absent(_, _, _)
create_absent(s, old, new) ==
    IF new = <<>> \/ s.err # "none" THEN s
    ELSE IF is_exists(Head(new), old) THEN create_absent(s, old, Tail(new))
    ELSE IF Head(new) \in s.table THEN [s EXCEPT !.err = "IntegrityError"]
    ELSE create_absent([s EXCEPT !.table = @ \cup {Head(new)},
                                 !.created = Append(@, Head(new))],
                       old, Tail(new))

\* BaseDao._update_many_to_many(many_to_many_old, many_to_many_new)
update_many_to_many(table, many_to_many_old, many_to_many_new) ==
    create_absent(delete_absent(NoSync(table), many_to_many_old, many_to_many_new),
                  many_to_many_old, many_to_many_new)

\* UsuarioRolDaoImpl.find_by_rol_id: a generic select with the join clauses
\* "rol" and "usuario", both INNER_JOIN, and the filter rol.id = rol_id. The
\* statement goes through __resolve_join_clause.
FindByRolIdJoins ==
    <<[field_name |-> <<"rol">>, join_type |-> "INNER_JOIN", is_join_with_fetch |-> FALSE],
      [field_name |-> <<"usuario">>, join_type |-> "INNER_JOIN", is_join_with_fetch |-> FALSE]>>
FindByRolIdAliases ==
    [f \in {<<"rol">>, <<"usuario">>} |->
        [owner_breadcrumb |-> <<>>, model_field_value |-> f,
         model_alias |-> [name |-> f, id |-> IF f = <<"rol">> THEN 1 ELSE 2]]]
find_by_rol_id(table, rol_id) ==
    LET r == resolve_join_clause(FindByRolIdJoins, FindByRolIdAliases, FALSE,
                                 [joins |-> <<>>, options |-> <<>>])
    IN IF r.err.type # "none"
       THEN [err |-> r.err.type, rows |-> {}]
       ELSE [err |-> "none", rows |-> RowsOfRol(table, rol_id)]

\* UsuarioRolDaoImpl.update_usuarios_roles_by_rol once find_by_rol_id gave
\* usuarios_roles_old: the same two loops.
update_usuarios_roles_from(table, usuarios_roles_old, usuarios_asociados) ==
    create_absent(delete_absent(NoSync(table), usuarios_roles_old, usuarios_asociados),
                  usuarios_roles_old, usuarios_asociados)

\* RolServiceImpl.update after self._dao.update(registry), which writes the
\* table roles only: the relation is synchronized "if usuarios_roles". An
\* error leaves the service method; __start_transaction rolls back.
rol_update(table, usuarios_roles, usuarios_roles_old) ==
    IF usuarios_roles = <<>> THEN NoSync(table)
    ELSE IF find_by_rol_id(table, RolId).err # "none"
    THEN [NoSync(table) EXCEPT !.err = find_by_rol_id(table, RolId).err]
    ELSE IF update_usuarios_roles_from(table, usuarios_roles_old, usuarios_roles).err # "none"
    THEN [NoSync(table) EXCEPT
            !.err = update_usuarios_roles_from(table, usuarios_roles_old, usuarios_roles).err]
    ELSE update_usuarios_roles_from(table, usuarios_roles_old, usuarios_roles)

InitSync ==
    /\ idle_but_sync
    /\ \E stored \in SUBSET Usuarios, other \in SUBSET {1},
          new \in ListsOf(Usuarios) :
         sync = [pc |-> "input",
                 table |-> {UsuarioRol(RolId, u) : u \in stored}
                           \cup {UsuarioRol(OtherRolId, u) : u \in other},
                 before |-> {UsuarioRol(RolId, u) : u \in stored},
                 usuarios_roles |-> [i \in 1..Len(new) |-> UsuarioRol(RolId, new[i])],
                 op |-> "none", err |-> "none", deleted |-> <<>>, created |-> <<>>]

after_sync(s, op, r) ==
    [s EXCEPT !.pc = "done", !.op = op, !.table = r.table, !.err = r.err,
              !.deleted = r.deleted, !.created = r.created]

\* self._update_many_to_many(old, new) with the stored rows of the role as the
\* old list, in the order the database returned them.
UpdateManyToMany ==
    /\ sync.pc = "input"
    /\ \E old \in OrderingsOf(RowsOfRol(sync.table, RolId)) :
         sync' = after_sync(sync, "_update_many_to_many",
                            update_many_to_many(sync.table, old, sync.usuarios_roles))
    /\ UNCHANGED others_sync

\* rol_service.update(registry)
RolUpdate ==
    /\ sync.pc = "input"
    /\ \E old \in OrderingsOf(RowsOfRol(sync.table, RolId)) :
         sync' = after_sync(sync, "update", rol_update(sync.table, sync.usuarios_roles, old))
    /\ UNCHANGED others_sync

NextSync ==
    \/ UpdateManyToMany
    \/ RolUpdate

SpecSync == InitSync /\ [][NextSync]_vars

\* ------------------------------------------------------------------ SpecPage
\* limit and offset of select / select_fields: __select puts them on the
\* statement after the other clauses and the database applies them to the rows
\* the rest of the statement yields.
MaxRows == 3
MaxLimit == 2

\* Python's None where an int is expected (limit: int = None, offset: int = None).
NoneInt == -1
Paging == {NoneInt} \cup (0..MaxLimit)

\* The rows of the root table in primary-key order; d is the column the
\* clauses name.
PageTables == UNION {[1..n -> [d : {0, 1}]] : n \in 0..MaxRows}
PageRow(tbl, i) == [id |-> i, d |-> tbl[i].d]

PageClause(kind) ==
    [kind |-> kind, field_name |-> <<"d">>,
     filter_type |-> IF kind = "filter" THEN "EQUALS" ELSE "none"]

EmptyStatement == [where |-> FALSE, group_by |-> FALSE, order_by |-> FALSE,
                   limit |-> NoneInt, offset |-> NoneInt]

\* "if limit is not None: stmt = stmt.limit(limit); if offset is not None:
\* stmt = stmt.offset(offset)", the second test inside the first.
limit_offset_mut(stmt, limit, offset) ==
    [stmt EXCEPT !.limit = limit, !.offset = offset]
limit_offset(stmt, limit, offset) ==
    IF limit # NoneInt
    THEN IF offset # NoneInt
         THEN [stmt EXCEPT !.limit = limit, !.offset = offset]
         ELSE [stmt EXCEPT !.limit = limit]
    ELSE stmt

\* The statement of __select from the where clause on; the filter, group-by
\* and order-by clauses name the column d of the root entity.
page_statement(p) ==
    limit_offset([EmptyStatement EXCEPT !.where = p.where, !.group_by = p.group_by,
                                        !.order_by = p.order_by],
                 p.limit, p.offset)

\* The first error of the compilation: field clauses and joins as in every
\* generic select, then the filter, group-by and order-by clauses.
page_error(p) ==
    first_error(
        <<compile_select(p.jcs, p.field).err,
          IF p.where THEN resolve_filter_clause(<<>>, PageClause("filter")) ELSE NoError,
          IF p.group_by THEN resolve_fields_info(<<>>, PageClause("group_by")) ELSE NoError,
          IF p.order_by THEN resolve_fields_info(<<>>, PageClause("order_by")) ELSE NoError>>)

\* What the database does with the statement. WHERE d = 1; GROUP BY d keeps one
\* row per value of d; ORDER BY is by id, descending; then OFFSET and LIMIT.
RECURSIVE where_rows(_)
where_rows(rows) ==
    IF rows = <<>> THEN <<>>
    ELSE IF Head(rows).d = 1 THEN <<Head(rows)>> \o where_rows(Tail(rows))
    ELSE where_rows(Tail(rows))

RECURSIVE group_rows(_, _)
group_rows(rows, seen) ==
    IF rows = <<>> THEN <<>>
    ELSE IF Head(rows).d \in seen THEN group_rows(Tail(rows), seen)
    ELSE <<Head(rows)>> \o group_rows(Tail(rows), seen \cup {Head(rows).d})

order_rows(rows) == [i \in 1..Len(rows) |-> rows[Len(rows) + 1 - i]]

window_rows(rows, limit, offset) ==
    LET first == IF offset = NoneInt THEN 1 ELSE offset + 1
        last == IF limit = NoneInt \/ first + limit - 1 > Len(rows)
                THEN Len(rows) ELSE first + limit - 1
    IN SubSeq(rows, first, last)

unpaged_rows(stmt, tbl) ==
    LET r0 == [i \in 1..Len(tbl) |-> PageRow(tbl, i)]
        r1 == IF stmt.where THEN where_rows(r0) ELSE r0
        r2 == IF stmt.group_by THEN group_rows(r1, {}) ELSE r1
    IN IF stmt.order_by THEN order_rows(r2) ELSE r2

execute(stmt, tbl) == window_rows(unpaged_rows(stmt, tbl), stmt.limit, stmt.offset)

InitPage ==
    /\ idle_but_page
    /\ \E tbl \in PageTables, limit \in Paging, offset \in Paging,
          w \in BOOLEAN, g \in BOOLEAN, o \in BOOLEAN,
          jcs \in {<<>>, <<JoinClause(<<"a">>)>>},
          field \in {NoClause, PageClause("field")} :
         page = [pc |-> "call", table |-> tbl, limit |-> limit, offset |-> offset,
                 where |-> w, group_by |-> g, order_by |-> o, jcs |-> jcs, field |-> field,
                 err |-> NoError, stmt |-> EmptyStatement, result |-> <<>>]

after_page(p, e, stmt) ==
    [p EXCEPT !.pc = IF e.type = "none" THEN "done" ELSE "failed",
              !.err = e,
              !.stmt = IF e.type = "none" THEN stmt ELSE @,
              !.result = IF e.type = "none" THEN execute(stmt, p.table) ELSE @]

\* select(..., limit, offset) / select_fields(..., limit, offset)
SelectPage ==
    /\ page.pc = "call"
    /\ page' = after_page(page, page_error(page), page_statement(page))
    /\ UNCHANGED others_page

NextPage == SelectPage

SpecPage == InitPage /\ [][NextPage]_vars

\* ------------------------------------------------------------ alias claims
InputPaths == {join_clauses[i].field_name : i \in DOMAIN join_clauses}
IsNested(p) == Len(split(p, ".")) > 1
ParentPath(p) == LET sp == split(p, ".") IN join(SubSeq(sp, 1, Len(sp) - 1), ".")

\* The class a chain of relationship names leads to from the main entity,
\* "none" when some name is not a relationship of the class reached so far.
RECURSIVE ClassAt(_, _)
ClassAt(cls, segs) ==
    IF segs = <<>> THEN cls
    ELSE IF ~IsRelationship(cls, Head(segs)) THEN "none"
    ELSE ClassAt(RelClass(cls, Head(segs)), Tail(segs))

ValidPath(p) == ClassAt(entity_type, split(p, ".")) # "none"
PrefixClosed(S) == \A p \in S : IsNested(p) => ParentPath(p) \in S
AliasResolved == alias_pc \notin {"idle", "input"}
ParentBuiltFirst ==
    \A i \in DOMAIN alias_built :
        IsNested(alias_built[i]) =>
            \E j \in 1..(i - 1) : alias_built[j] = ParentPath(alias_built[i])

C9_DistinctAliasNames ==
    \A p, q \in DOMAIN alias_dict :
        p # q => alias_dict[p].model_alias.name # alias_dict[q].model_alias.name

\* ----------------------------------------------------------- filter claims
\* C10 (as written): permuting sibling clauses of one list that share one
\* logical operator never changes the set of rows the compiled filter accepts.
C10_SiblingOrderIrrelevant ==
    filter_pc = "compiled" => Accepted(where_perm) = Accepted(where_orig)

\* C10 (amended): permuting clauses inside one run of consecutive sibling
\* clauses that share one logical operator, at the top level or inside a
\* nested list, never changes the set of rows the compiled filter accepts.
C10_OrderInsideRunIrrelevant ==
    (filter_pc = "compiled" /\ perm_in_run) =>
        Accepted(where_perm) = Accepted(where_orig)

\* Two clauses of the first of two runs were exchanged and the WHERE
\* expressions differ as written.
C10_Witness ==
    /\ filter_pc = "compiled" /\ perm_in_run
    /\ Len(filter_clauses) = 3
    /\ filter_clauses[1].operator_type = filter_clauses[2].operator_type
    /\ filter_clauses[3].operator_type # filter_clauses[2].operator_type
    /\ filter_perm[1] = filter_clauses[2] /\ filter_perm[2] = filter_clauses[1]
    /\ where_perm # where_orig
    /\ Accepted(where_orig) \notin {{}, Rows}

\* --------------------------------------------------------- wildcard claims
\* C11: LIKE / NOT LIKE leave a value holding '%' as it is and otherwise
\* make it '%value%'; STARTS_WITH only adds a trailing '%' and ENDS_WITH only
\* a leading '%'; compiling the same clause again gives the same pattern.
C11_WildcardIdempotent ==
    LET v == wildcard.original.object_to_compare
        ft == wildcard.original.filter_type
        ps == wildcard.patterns
    IN \A k \in DOMAIN ps :
        /\ ps[k] = ps[1]
        /\ ft \in {"LIKE", "NOT_LIKE"} =>
              ps[k] = IF Contains(v, "%") THEN v ELSE <<"%">> \o v \o <<"%">>
        /\ ft = "STARTS_WITH" =>
              ps[k] \in {v, v \o <<"%">>} /\ endswith(ps[k], "%")
        /\ ft = "ENDS_WITH" =>
              ps[k] \in {v, <<"%">> \o v} /\ startswith(ps[k], "%")

C11_Witness ==
    /\ wildcard.original.filter_type = "LIKE"
    /\ wildcard.original.object_to_compare = <<"a">>
    /\ wildcard.patterns = <<<<"%", "a", "%">>, <<"%", "a", "%">>>>

\* C17: compiling a query leaves every clause object of the caller unchanged.
C17_ClauseUnchanged ==
    wildcard.pc = "compiled" => wildcard.clause = wildcard.original

\* ------------------------------------------------------ materializer claims
DottedPath(label) == split(replace(label, separator_for_nested_fields, "."), ".")

\* The <<path, value>> pairs of a nested dict.
RECURSIVE Flatten(_, _)
Flatten(d, prefix) ==
    UNION {IF d.m[k].kind = "dict" THEN Flatten(d.m[k], Append(prefix, k))
           ELSE {<<Append(prefix, k), d.m[k].v>>} : k \in DOMAIN d.m}

\* The node a path leads to, ErrNode when the path is not there.
RECURSIVE Lookup(_, _)
Lookup(d, path) ==
    IF path = <<>> THEN d
    ELSE IF d.kind # "dict" THEN ErrNode
    ELSE IF Head(path) \notin DOMAIN d.m THEN ErrNode
    ELSE Lookup(d.m[Head(path)], Tail(path))

IsPrefix(p, q) == Len(p) <= Len(q) /\ SubSeq(q, 1, Len(p)) = p
RowLabels == DOMAIN materializer.row
Materialized == materializer.pc \in {"done", "TypeError"}
RoundTrip ==
    /\ materializer.pc = "done"
    /\ \A l \in RowLabels :
          Lookup(materializer.final_dict, DottedPath(l)) = ValNode(materializer.row[l])
    /\ Flatten(materializer.final_dict, <<>>) =
          {<<DottedPath(l), materializer.row[l]>> : l \in RowLabels}

SelectOver == query.pc \in {"rejected", "failed", "done"}
RequestedJoinPaths == {query.join_requests[i].field_name : i \in DOMAIN query.join_requests}
LastSegment(p) == LET sp == split(p, ".") IN sp[Len(sp)]

\* C13: a join clause asking for a right join is rejected with an error that
\* sends the caller to select_by_statement, and no statement with a right join
\* is built or executed.
C13_RightJoinRejected ==
    (SelectOver /\ \E i \in DOMAIN query.join_requests :
                      query.join_requests[i].join_type = "RIGHT_JOIN")
    => /\ query.err.type = "ValueError"
       /\ query.err.directs_to = "select_by_statement"
       /\ query.executed = 0

\* C14: a select that fails with a compilation error has executed no statement
\* on the session.
C14_NoExecutionOnCompileError ==
    /\ query.pc \in {"rejected", "failed"} => query.executed = 0
    /\ query.pc \in {"request", "built"} => query.executed = 0
    /\ query.pc = "done" => query.err = NoError

C14_Witness ==
    /\ query.pc = "failed"
    /\ query.other.kind = "filter"
    /\ query.err.type = "ValueError"
    /\ query.join_requests = <<>>

\* A join path with an unknown relationship or without its parent among the
\* joins; another clause with an unknown relationship prefix or column.
BadJoinPath(p) == ~ValidPath(p) \/ (IsNested(p) /\ ParentPath(p) \notin RequestedJoinPaths)
BadOtherClause(c) ==
    /\ c.kind # "none"
    /\ LET sp == split(c.field_name, ".")
           cls == ClassAt(entity_type, SubSeq(sp, 1, Len(sp) - 1))
       IN cls = "none" \/ ~IsColumn(cls, sp[Len(sp)])
OffendingPaths ==
    {p \in RequestedJoinPaths : BadJoinPath(p)}
    \cup (IF BadOtherClause(query.other) THEN {query.other.field_name} ELSE {})
NamedBy(err, p) ==
    err.names \cap ({p, LastSegment(p)} \cup (IF IsNested(p) THEN {ParentPath(p)} ELSE {})) # {}

\* C15: a join clause with an unknown relationship or a parent path without
\* alias entry, or another clause with an unknown relationship prefix or
\* column, makes the select fail with an error that names an offending path
\* (the path, its parent path or its last segment).
C15_ErrorNamesPath ==
    (query.pc \in {"failed", "done"} /\ OffendingPaths # {})
    => /\ query.pc = "failed"
       /\ \E p \in OffendingPaths : NamedBy(query.err, p)

\* The relationship paths a clause path goes through.
Prefixes(p, whole) ==
    LET sp == split(p, ".")
        n == IF whole THEN Len(sp) ELSE Len(sp) - 1
    IN {join(SubSeq(sp, 1, k), ".") : k \in 1..n}
ReferencedPrefixes ==
    UNION {Prefixes(p, TRUE) : p \in RequestedJoinPaths}
    \cup (IF query.other.kind = "none" THEN {} ELSE Prefixes(query.other.field_name, FALSE))

\* C16: the alias table of a query has an entry for every relationship prefix
\* any of its clauses goes through, so a clause on a nested path is resolved
\* without a join clause for the relationship.
C16_AliasForEveryPrefix ==
    (/\ query.pc \in {"failed", "done"}
     /\ \A p \in ReferencedPrefixes : ValidPath(p)
     /\ ~BadOtherClause(query.other))
    => ReferencedPrefixes \subseteq DOMAIN query.aliases_dict

\* -------------------------------------------------------------- wire claims
RECURSIVE AllFilterClauses(_)
AllFilterClauses(lst) ==
    \A i \in DOMAIN lst :
        /\ ~is_dict(lst[i])
        /\ AllFilterClauses(lst[i].related_filter_clauses)

\* C18: a query built from its wire form holds FilterClause objects at every
\* depth of its filters, and compiles to what the same query built from
\* objects compiles to.
C18_WireFiltersAreObjects ==
    /\ jsonquery.pc \in {"built", "compiled"} => AllFilterClauses(jsonquery.filters)
    /\ jsonquery.pc = "compiled" => jsonquery.from_wire = jsonquery.from_objects

\* ------------------------------------------------------------ commit claims
CommittedOf(t) == {w \in committer.w.db : w.thread = t}
StepsDone(t) == committer.log[t]

\* C19: the steps of commit run in the order flush, expunge_all, commit on
\* the calling thread's session; a write reaches the database only after the
\* flush and the detach of its thread, only from that thread's session, and a
\* commit whose flush fails commits nothing.
C19_CommitOrder ==
    committer.pc = "run" =>
      \A t \in Threads :
        /\ StepsDone(t) = SubSeq(CommitSteps, 1, Len(StepsDone(t)))
        /\ CommittedOf(t) # {} => StepsDone(t) = CommitSteps
        /\ CommittedOf(t) \subseteq committer.asked[t]
        /\ committer.at[t] = "committed" =>
              /\ CommittedOf(t) = committer.asked[t]
              /\ committer.w.ses[t].attached = {}
        /\ committer.err[t] # "none" => CommittedOf(t) = {} /\ Len(StepsDone(t)) = 0
        /\ (\E w \in committer.asked[t] : ~w.valid) => CommittedOf(t) = {}

C19_Witness ==
    /\ committer.pc = "run"
    /\ \E t, u \in Threads :
         /\ committer.at[t] = "committed" /\ CommittedOf(t) # {}
         /\ committer.at[u] = "raised" /\ committer.err[u] = "IntegrityError"

\* ----------------------------------------------------------- factory claims
\* C20: whatever the interleaving of the threads calling get_service, a
\* service class is instantiated at most once and every call for it returns
\* the same instance.
C20_OneInstancePerClass ==
    factory.pc = "run" =>
      \A c \in Services :
        /\ factory.created[c] <= 1
        /\ \A r1, r2 \in factory.returned : r1[1] = c /\ r2[1] = c => r1[2] = r2[2]

\* ------------------------------------------------------- primary-key claims
PrimaryKeyOf(cols) == SelectSeq(cols, LAMBDA c : c.primary_key)

IsFlat(lst) == \A i \in DOMAIN lst : lst[i].related_filter_clauses = <<>>

IsInfix(w, v) == \E i \in 0..(Len(v) - Len(w)) : SubSeq(v, i + 1, i + Len(w)) = w

\* What one comparison asks of a row.
LeafHolds(c, row) ==
    IF c.filter_type = "EQUALS" THEN row[c.field_name] = c.object_to_compare
    ELSE IsInfix(c.object_to_compare, row[c.field_name])

Combine(operator_type, p, q) == IF operator_type = "OR" THEN p \/ q ELSE p /\ q

\* The left-to-right chain over the first k clauses of a list, a clause with
\* nested clauses standing for (leaf OP sub), OP the operator of its first
\* nested clause.
RECURSIVE ChainHolds(_, _, _)
UnitHolds(c, row) ==
    IF c.related_filter_clauses = <<>> THEN LeafHolds(c, row)
    ELSE Combine(c.related_filter_clauses[1].operator_type,
                 LeafHolds(c, row),
                 ChainHolds(c.related_filter_clauses, Len(c.related_filter_clauses), row))
ChainHolds(lst, k, row) ==
    IF k = 1 THEN UnitHolds(lst[1], row)
    ELSE Combine(lst[k].operator_type, ChainHolds(lst, k - 1, row), UnitHolds(lst[k], row))

\* C22: for clauses without nested clauses the compiled predicate is the
\* left-to-right chain ((c1 op2 c2) op3 c3) ... opn cn, and the operator of
\* the first clause has no effect.
C22_RunsAreLeftToRightChain ==
    (grouping.pc = "compiled" /\ IsFlat(grouping.filter_clauses)) =>
      \A row \in TipoClienteRows :
        /\ Satisfies(grouping.where, row)
             <=> ChainHolds(grouping.filter_clauses, Len(grouping.filter_clauses), row)
        /\ Satisfies(grouping.where_other_first, row) <=> Satisfies(grouping.where, row)

C22_Witness ==
    /\ grouping.pc = "compiled"
    /\ IsFlat(grouping.filter_clauses)
    /\ Len(grouping.filter_clauses) = 3
    /\ grouping.filter_clauses[1].operator_type = "OR"
    /\ grouping.filter_clauses[2].operator_type = "AND"
    /\ grouping.filter_clauses[3].operator_type = "OR"
    /\ \E r1, r2 \in TipoClienteRows :
         Satisfies(grouping.where, r1) /\ ~Satisfies(grouping.where, r2)

ScenarioAccepted == [codigo |-> <<"0", "0", "0", "0">>, descripcion |-> TextGeneric]
ScenarioRejected == [codigo |-> <<"1", "1", "1", "1">>, descripcion |-> <<"o", "t", "h", "e", "r">>]

\* C23: a clause with nested clauses is the parenthesized unit (leaf OP sub),
\* OP the operator of its first nested clause, joined to its siblings by its
\* own operator; codigo LIKE '0' AND (descripcion LIKE 'iv' OR descripcion
\* LIKE 'rr' OR descripcion = 'Generic') accepts {0000, Generic} and rejects
\* {1111, other}.
C23_NestedUnit ==
    (grouping.pc = "compiled" /\ ~IsFlat(grouping.filter_clauses)) =>
      /\ \A row \in TipoClienteRows :
           Satisfies(grouping.where, row)
             <=> ChainHolds(grouping.filter_clauses, Len(grouping.filter_clauses), row)
      /\ grouping.filter_clauses = query_1(<<"AND", "AND", "OR", "OR">>) =>
           /\ Satisfies(grouping.where, ScenarioAccepted)
           /\ ~Satisfies(grouping.where, ScenarioRejected)
           /\ \A row \in TipoClienteRows :
                Satisfies(grouping.where, row) <=>
                  /\ IsInfix(Text0, row.codigo)
                  /\ \/ IsInfix(TextIv, row.descripcion)
                     \/ IsInfix(TextRr, row.descripcion)
                     \/ row.descripcion = TextGeneric
      /\ grouping.filter_clauses = query_1(<<"AND", "OR", "AND", "AND">>) =>
           /\ Satisfies(grouping.where, ScenarioAccepted)
           /\ ~Satisfies(grouping.where, ScenarioRejected)

C23_Witness ==
    /\ grouping.pc = "compiled"
    /\ grouping.filter_clauses = query_1(<<"AND", "AND", "OR", "OR">>)
    /\ Satisfies(grouping.where, ScenarioAccepted)

\* ------------------------------------------------------- breadcrumb claims
PrefixOf(p, k) == join(SubSeq(split(p, "."), 1, k), ".")

\* C24: the breadcrumb of the alias entry of a path s1..sk is the list of
\* the (relationship accessor, alias) pairs of its proper prefixes, from the
\* root to the parent, each alias being the one the alias table holds for
\* that prefix; a top-level path has an empty breadcrumb.
C24_Breadcrumb ==
    AliasResolved =>
      \A p \in DOMAIN alias_dict :
        LET k == Len(split(p, "."))
            owner_breadcrumb == alias_dict[p].owner_breadcrumb
        IN /\ Len(owner_breadcrumb) = k - 1
           /\ \A i \in 1..(k - 1) :
                /\ PrefixOf(p, i) \in DOMAIN alias_dict
                /\ owner_breadcrumb[i] = <<alias_dict[PrefixOf(p, i)].model_field_value,
                                           alias_dict[PrefixOf(p, i)].model_alias>>
                /\ owner_breadcrumb[i][1][2] = split(p, ".")[i]

C24_Witness ==
    /\ alias_pc = "done"
    /\ <<"a", ".", "b", ".", "c">> \in DOMAIN alias_dict
    /\ Len(alias_dict[<<"a", ".", "b", ".", "c">>].owner_breadcrumb) = 2
    /\ alias_dict[<<"a">>].owner_breadcrumb = <<>>

\* -------------------------------------------------------------- join claims
\* The call got past the constructors, its join paths name relationships,
\* each nested one has its parent among them, and its other clause is sound.
SoundJoins ==
    /\ query.pc \in {"failed", "done"}
    /\ query.join_requests # <<>>
    /\ \A p \in RequestedJoinPaths : ~BadJoinPath(p)
    /\ ~BadOtherClause(query.other)
EmittedJoinPaths == {query.joins[i].field_name : i \in DOMAIN query.joins}

\* C25: the compiled query holds exactly one join per distinct join path,
\* and the join of a path comes after the join of its parent path.
C25_OneJoinPerPath ==
    SoundJoins =>
      /\ EmittedJoinPaths = RequestedJoinPaths
      /\ Len(query.joins) = Cardinality(RequestedJoinPaths)
      /\ \A i \in DOMAIN query.joins :
           IsNested(query.joins[i].field_name) =>
             \E k \in 1..(i - 1) :
               query.joins[k].field_name = ParentPath(query.joins[i].field_name)

FetchClauses == {i \in DOMAIN query.join_clauses : query.join_clauses[i].is_join_with_fetch}

\* C26: an eager-load instruction is registered for a join clause exactly
\* when the clause has the fetch flag and the query selects whole entities,
\* and it carries the breadcrumb accessors followed by the clause's aliased
\* accessor; a field projection registers none and still emits every join.
C26_EagerLoadExactlyWithFetch ==
    SoundJoins =>
      /\ Len(query.joins) = Len(query.join_clauses)
      /\ Len(query.options) =
           IF query.other.kind = "field" THEN 0 ELSE Cardinality(FetchClauses)
      /\ \A i \in DOMAIN query.options :
           \E k \in FetchClauses :
             LET p == query.join_clauses[k].field_name
                 eager == query.options[i]
             IN /\ p \in DOMAIN query.aliases_dict
                /\ Len(eager) = Len(split(p, "."))
                /\ eager[Len(eager)].of_type = query.aliases_dict[p].model_alias
                /\ \A n \in 1..Len(eager) : eager[n].accessor[2] = split(p, ".")[n]

\* ------------------------------------------------------------ method-reference claims
\* C27: no call of a service method runs create_session on a thread that has an
\* active session, also when the method attribute was read in another session
\* state than the one it is called in.
C27_NoCreateOnActiveSession ==
    methodref.pc = "run" => ~methodref.createdOnActive

\* ------------------------------------------------------------- barrier claims
\* C28: an exception raised inside a service method at any nesting depth reaches
\* the outermost caller wrapped exactly once, the wrapper recording the original
\* exception and its type name; a database uniqueness violation (IntegrityError)
\* is thereby told from any other failure.
C28_WrappedOnce ==
    (barrier.pc = "caught" /\ barrier.original.cls # WrapperOf(barrier.handler)) =>
        /\ barrier.exc.cls = WrapperOf(barrier.handler)
        /\ barrier.exc.layers = 1
        /\ barrier.exc.source = barrier.original.cls
        /\ barrier.exc.exception_type = barrier.original.cls

\* ---------------------------------------------------------- many-to-many claims
ElementsOf(lst) == {lst[i] : i \in 1..Len(lst)}

\* C29: the synchronization deletes exactly the elements of old that are not in
\* new, creates exactly the elements of new that are not in old, each once, and
\* touches no element of both; after RolServiceImpl.update(registry) the
\* stored usuario-rol rows of the role are registry.usuarios_roles, for every
\* new list, empty or not.
C29_SyncIsExactDifference ==
    sync.pc = "done" =>
        /\ sync.op = "_update_many_to_many" =>
             /\ sync.err = "none"
             /\ ElementsOf(sync.deleted) = sync.before \ ElementsOf(sync.usuarios_roles)
             /\ ElementsOf(sync.created) = ElementsOf(sync.usuarios_roles) \ sync.before
             /\ Len(sync.deleted) = Cardinality(ElementsOf(sync.deleted))
             /\ Len(sync.created) = Cardinality(ElementsOf(sync.created))
        /\ sync.op = "update" =>
             /\ sync.err = "none"
             /\ RowsOfRol(sync.table, RolId) = ElementsOf(sync.usuarios_roles)

\* ----------------------------------------------------------------- paging claims
\* The rows of the call without limit and offset: filtered, grouped, ordered.
PageBase == unpaged_rows(page.stmt, page.table)
PageStart == IF page.limit = NoneInt \/ page.offset = NoneInt THEN 0 ELSE page.offset

\* C30: limit and offset cut the rows that joins, filter, grouping and ordering
\* yield; an offset takes effect only together with a limit: without a limit
\* the result is all of those rows, from the first one.
C30_LimitOffsetAfterTheRest ==
    page.pc = "done" =>
        /\ page.stmt.where = page.where
        /\ page.stmt.group_by = page.group_by
        /\ page.stmt.order_by = page.order_by
        /\ \A i \in 1..Len(page.result) :
               /\ PageStart + i <= Len(PageBase)
               /\ page.result[i] = PageBase[PageStart + i]
        /\ IF page.limit = NoneInt
           THEN page.result = PageBase
           ELSE /\ Len(page.result) <= page.limit
                /\ Len(page.result) < page.limit => PageStart + Len(page.result) >= Len(PageBase)

\* A call without limit and with an offset that would have cut rows of a
\* filtered and ordered result.
C30_Witness ==
    /\ page.pc = "done"
    /\ page.limit = NoneInt
    /\ page.offset > 0
    /\ page.where /\ page.order_by
    /\ Len(page.result) >= 2

====
